---- MODULE Spec2Model ----
(***************************************************************************)
(* Inventory movement ledger and document lifecycle engine of              *)
(* telecable_almacen (Django).  The persistent state is the set of         *)
(* database rows of Stock, MovimientoInventario, DocumentoInventario (with *)
(* its DocumentoItem lines) and Correlativo.  Every request handler that   *)
(* runs inside transaction.atomic is one action: it commits all of its     *)
(* writes or none of them.                                                 *)
(***************************************************************************)
EXTENDS Integers, Sequences, FiniteSets, TLC

VARIABLES
    stock,        \* Stock rows: function from existing (producto, sede) pairs to cantidad
    movimientos,  \* MovimientoInventario rows in creation order
    docs,         \* DocumentoInventario rows, indexed by primary key 1..Len(docs)
    correlativo,  \* Correlativo rows: function from document types having a row to ultimo_numero
    lastOp,       \* history: the last operation, its inputs, its outcome and the state before it
    editado,      \* history: TRUE once a stock-editing endpoint has written a Stock row
    txs,          \* concurrent number assignment: per-transaction local state
    emitidos,     \* concurrent number assignment: history of numbers handed to callers
    sedes,        \* Sede rows, indexed by primary key 1..Len(sedes)
    productos,    \* Producto rows (codigo_interno), indexed by primary key
    liquidaciones, \* LiquidacionSemanal rows
    logs,         \* LiquidacionLog rows in creation order
    enCurso       \* requests in flight: what each one has read and validated so far

\* the tables the ledger and the document engine never write
otrasTablas == <<sedes, productos, liquidaciones, logs, enCurso>>

vars == <<stock, movimientos, docs, correlativo, lastOp, editado, txs, emitidos,
          sedes, productos, liquidaciones, logs, enCurso>>

----------------------------------------------------------------------------
(* Bounds of the model *)

MaxQty == 2
MaxMovs == 1
MaxDocs == 3
MaxTxs == 3
MaxInstante == 2
MaxReqs == 1
MaxSedes == 3
MaxEnCurso == 2
MaxSemana == 1
MaxLogs == 2
MaxProductos == 3
MaxAplicados == 3

\* add_item_to_req / set_item_qty: MAX_QTY
MAX_QTY == 9999

\* width of the number of an internal code: INTERNAL_RE and the format {n:06d}
Ancho == 6

----------------------------------------------------------------------------
\* cap on Stock.cantidad
MaxStock == MaxQty + 1

(* Catalog: static reference data *)

Sedes == {"JAUJA", "HYO"}

\* Sede.tipo
SedeTipo(s) == IF s = "JAUJA" THEN "CENTRAL" ELSE "SECUNDARIO"

Productos == {"P1", "P2"}

\* Producto.costo_unitario, in cents
CostoProducto(p) == IF p = "P1" THEN 150 ELSE 200

None == "None"

\* a sequence without its k-th element
Quitar(seq, k) == [j \in 1..(Len(seq) - 1) |-> IF j < k THEN seq[j] ELSE seq[j + 1]]

TiposMov == {"IN", "OUT", "ADJ"}

Abs(n) == IF n < 0 THEN -n ELSE n

----------------------------------------------------------------------------
(* Stock ledger: Stock + MovimientoInventario *)

ExisteStock(st, p, s) == <<p, s>> \in DOMAIN st

\* Stock.objects.get_or_create(producto, sede, defaults={"cantidad": 0}).cantidad
Cantidad(st, p, s) == IF ExisteStock(st, p, s) THEN st[<<p, s>>] ELSE 0

\* stock.save() of the row of (p, s), the row created when missing
PonerStock(st, p, s, c) ==
    [r \in DOMAIN st \cup {<<p, s>>} |-> IF r = <<p, s>> THEN c ELSE st[r]]

\* MovimientoInventario.clean: IN/OUT need qty > 0, ADJ needs qty # 0
QtyValida(tipo, qty) ==
    IF tipo \in {"IN", "OUT"} THEN qty > 0 ELSE qty # 0

NuevaCantidad_SinSigno(cant, tipo, qty) == cant + Abs(qty)

\* MovimientoInventario.aplicar: the new quantity per kind
NuevaCantidad(cant, tipo, qty) ==
    CASE tipo = "IN" -> cant + qty
      [] tipo = "OUT" -> cant - qty
      [] tipo = "ADJ" -> cant + qty
      [] OTHER -> cant

StockInsuficiente_Nunca(cant) == FALSE

\* MovimientoInventario.aplicar: the negative-stock check
StockInsuficiente(cant) == cant < 0

\* MovimientoInventario.aplicar as a function of the Stock table: ok = FALSE is the
\* ValidationError, after which transaction.atomic has undone the get_or_create
Aplicar(st, p, s, tipo, qty) ==
    LET nueva == NuevaCantidad(Cantidad(st, p, s), tipo, qty)
    IN  IF StockInsuficiente(nueva)
        THEN [ok |-> FALSE, stock |-> st]
        ELSE [ok |-> TRUE, stock |-> PonerStock(st, p, s, nueva)]

\* costo_unitario is NULL (no cost given)
SinCosto == 0 - 1

\* MovimientoInventario.save: costo_unitario defaults to the product's, costo_total = |qty| * costo_unitario
NuevoMovimiento(p, s, tipo, qty, cu, ref) ==
    LET costo == IF cu = SinCosto THEN CostoProducto(p) ELSE cu
    IN  [producto |-> p, sede |-> s, tipo |-> tipo, qty |-> qty,
         costo_unitario |-> costo, costo_total |-> Abs(qty) * costo,
         referencia |-> ref]

\* MovimientoInventario.referencia left blank
SinReferencia == [tipo |-> "", digitos |-> <<>>]

SinOp == [op |-> "init"]

\* history record of one aplicar call: mov is the primary key of the saved row (0: the
\* instance was never saved), existia/antes the Stock row of the pair before the call
OpAplicar(res, p, s, tipo, qty, mov) ==
    [op |-> "aplicar", ok |-> res.ok, producto |-> p, sede |-> s, tipo |-> tipo,
     qty |-> qty, mov |-> mov, existia |-> <<p, s>> \in DOMAIN stock,
     antes |-> IF <<p, s>> \in DOMAIN stock THEN stock[<<p, s>>] ELSE 0]

QtysDe(tipo) ==
    {q \in (-MaxQty)..MaxQty : QtyValida(tipo, q)}

\* MovimientoInventario.objects.create(...): the row is saved, nothing is applied
MovCrear(p, s, tipo, qty) ==
    /\ Len(movimientos) < MaxMovs
    /\ movimientos' = Append(movimientos, NuevoMovimiento(p, s, tipo, qty, SinCosto, SinReferencia))
    /\ lastOp' = [op |-> "crear_mov"]
    /\ UNCHANGED <<stock, docs, correlativo, editado, txs, emitidos, otrasTablas>>

\* mov.aplicar() on a saved row, called on its own (outside any enclosing transaction)
MovAplicar(i) ==
    LET m == movimientos[i]
        res == Aplicar(stock, m.producto, m.sede, m.tipo, m.qty)
    IN  /\ Cantidad(res.stock, m.producto, m.sede) <= MaxStock
        /\ stock' = res.stock
        /\ lastOp' = OpAplicar(res, m.producto, m.sede, m.tipo, m.qty, i)
        /\ UNCHANGED <<movimientos, docs, correlativo, editado, txs, emitidos, otrasTablas>>

\* mov.aplicar() on an instance that was never saved
MovAplicarSinGuardar(p, s, tipo, qty) ==
    LET res == Aplicar(stock, p, s, tipo, qty)
    IN  /\ Cantidad(res.stock, p, s) <= MaxStock
        /\ stock' = res.stock
        /\ lastOp' = OpAplicar(res, p, s, tipo, qty, 0)
        /\ UNCHANGED <<movimientos, docs, correlativo, editado, txs, emitidos, otrasTablas>>

\* MovimientoInventario.objects.create(...) followed by mov.aplicar(), two successive
\* calls with no enclosing transaction: the row stays saved when aplicar raises
MovCrearAplicar(p, s, tipo, qty) ==
    LET res == Aplicar(stock, p, s, tipo, qty)
    IN  /\ Len(movimientos) < MaxMovs
        /\ Cantidad(res.stock, p, s) <= MaxStock
        /\ movimientos' = Append(movimientos, NuevoMovimiento(p, s, tipo, qty, SinCosto, SinReferencia))
        /\ stock' = res.stock
        /\ lastOp' = OpAplicar(res, p, s, tipo, qty, Len(movimientos) + 1)
        /\ UNCHANGED <<docs, correlativo, editado, txs, emitidos, otrasTablas>>

----------------------------------------------------------------------------
(* Stock-editing endpoints of the dashboard *)

CantidadesPost == {-1, 1}

\* update_stock_simple: overwrites Stock.cantidad with the posted integer
UpdateStockSimple(p, s, c) ==
    /\ ExisteStock(stock, p, s)
    /\ stock' = PonerStock(stock, p, s, c)
    /\ lastOp' = [op |-> "update_stock_simple"]
    /\ editado' = TRUE
    /\ UNCHANGED <<movimientos, docs, correlativo, txs, emitidos, otrasTablas>>

\* add_stock_simple: get_or_create the row and add the posted integer
AddStockSimple(p, s, c) ==
    /\ Cantidad(stock, p, s) + c \in (-1)..MaxStock
    /\ stock' = PonerStock(stock, p, s, Cantidad(stock, p, s) + c)
    /\ lastOp' = [op |-> "add_stock_simple"]
    /\ editado' = TRUE
    /\ UNCHANGED <<movimientos, docs, correlativo, txs, emitidos, otrasTablas>>

\* create_product_simple: Stock.objects.get_or_create(defaults={"cantidad": posted})
CreateProductSimple(p, s, c) ==
    /\ ~ExisteStock(stock, p, s)
    /\ stock' = PonerStock(stock, p, s, c)
    /\ lastOp' = [op |-> "create_product_simple"]
    /\ editado' = TRUE
    /\ UNCHANGED <<movimientos, docs, correlativo, txs, emitidos, otrasTablas>>

----------------------------------------------------------------------------
(* Specification of the ledger alone: direct movements and stock endpoints *)

\* the (producto, sede) pairs the ledger runs act on
\* the Sede rows of the catalog: JAUJA (CENTRAL) and HYO, both active
SedesIniciales ==
    <<[nombre |-> "JAUJA", tipo |-> "CENTRAL", activo |-> TRUE],
      [nombre |-> "HYO", tipo |-> "SECUNDARIO", activo |-> TRUE]>>

ParesLedger == {<<"P1", "JAUJA">>, <<"P1", "HYO">>}

\* the pairs whose stock changes between liquidation runs
ParesLiquidacion == {<<"P1", "JAUJA">>, <<"P1", "HYO">>}

\* the pairs for which movement rows are saved directly
ParesCrear == {<<"P1", "JAUJA">>}

Init ==
    /\ stock = <<>>
    /\ movimientos = <<>>
    /\ docs = <<>>
    /\ correlativo = <<>>
    /\ lastOp = SinOp
    /\ editado = FALSE
    /\ txs = <<>>
    /\ emitidos = <<>>
    /\ sedes = SedesIniciales
    /\ productos = <<>>
    /\ liquidaciones = {}
    /\ logs = <<>>
    /\ enCurso = <<>>

NextLedger ==
    \/ \E r \in ParesCrear, t \in TiposMov : \E q \in QtysDe(t) : MovCrear(r[1], r[2], t, q)
    \/ \E i \in 1..Len(movimientos) : MovAplicar(i)
    \/ \E r \in ParesLedger, t \in TiposMov : \E q \in QtysDe(t) : MovAplicarSinGuardar(r[1], r[2], t, q)

SpecLedger == Init /\ [][NextLedger]_vars

(* Specification of the ledger together with the stock-editing endpoints *)

NextEndpoints ==
    \/ \E r \in ParesLedger, t \in TiposMov : \E q \in QtysDe(t) : MovCrearAplicar(r[1], r[2], t, q)
    \/ \E r \in ParesLedger, c \in CantidadesPost : UpdateStockSimple(r[1], r[2], c)
    \/ \E r \in ParesLedger, c \in CantidadesPost : AddStockSimple(r[1], r[2], c)
    \/ \E r \in ParesLedger, c \in CantidadesPost : CreateProductSimple(r[1], r[2], c)

SpecEndpoints == Init /\ [][NextEndpoints]_vars

----------------------------------------------------------------------------
(* Users and their profiles: static reference data *)

Usuarios == {"tec_hyo", "alm_hyo", "alm_jauja", "jefa"}

\* UserProfile.rol
Rol(u) ==
    CASE u = "tec_hyo" -> "SOLICITANTE"
      [] u \in {"alm_hyo", "alm_jauja"} -> "ALMACEN"
      [] OTHER -> "JEFA"

\* UserProfile.get_sede_operativa
SedeOperativa(u) == IF u \in {"tec_hyo", "alm_hyo"} THEN "HYO" ELSE "JAUJA"

\* DocumentoInventario._get_usuario_almacen_de_sede: the first ALMACEN profile of the sede
UsuarioAlmacenDeSede(s) == IF s = "HYO" THEN "alm_hyo" ELSE "alm_jauja"

----------------------------------------------------------------------------
(* Documents: DocumentoInventario + DocumentoItem + Correlativo *)

TiposDoc == {"REQ", "SAL", "ING", "MER"}

\* the decimal digits of n, zero-padded on the left to 10 places ("{n:010d}")
Digitos10(n) == [i \in 1..10 |-> (n \div (10 ^ (10 - i))) % 10]

\* numero is NULL
SinNumero == [tipo |-> "", digitos |-> <<>>]

\* DocumentoInventario._formatear_numero: "TYPE-dddddddddd"
FormatearNumero(tipo, n) == [tipo |-> tipo, digitos |-> Digitos10(n)]

\* the database a handler reads and writes, as one value
DB == [stock |-> stock, movimientos |-> movimientos, docs |-> docs, correlativo |-> correlativo]

\* Correlativo.objects.get_or_create(tipo=...).ultimo_numero (default 0)
UltimoNumero(corr, tipo) == IF tipo \in DOMAIN corr THEN corr[tipo] ELSE 0

PonerCorrelativo(corr, tipo, n) ==
    [t \in DOMAIN corr \cup {tipo} |-> IF t = tipo THEN n ELSE corr[t]]

\* DocumentoInventario.asignar_numero_si_falta on row d of the database db
AsignarNumeroSiFalta(db, d) ==
    IF db.docs[d].numero # SinNumero THEN db
    ELSE LET tipo == db.docs[d].tipo
             n == UltimoNumero(db.correlativo, tipo) + 1
         IN  [db EXCEPT !.correlativo = PonerCorrelativo(@, tipo, n),
                        !.docs[d].numero = FormatearNumero(tipo, n)]

\* DocumentoItem row; DocumentoItem.save copies the product's cost when none is given
NuevoItem(p, c, cu) ==
    [producto |-> p, cantidad |-> c,
     costo_unitario |-> IF cu = SinCosto THEN CostoProducto(p) ELSE cu,
     cantidad_devuelta |-> 0, cantidad_merma |-> 0, cantidad_usada |-> 0]

\* recibido_en is NULL
SinFecha == 0

\* the instants timezone.now() may return; the document engine runs at the first one
PrimerInstante == 1
Instantes == PrimerInstante..MaxInstante

\* DocumentoInventario.objects.create(...) with the model's field defaults
NuevoDoc(tipo, sede, destino, origen, estado, responsable, tipoReq) ==
    [tipo |-> tipo, numero |-> SinNumero, sede |-> sede, sede_destino |-> destino,
     origen |-> origen, estado |-> estado, responsable |-> responsable,
     entregado_por |-> None, recibido |-> FALSE, recibido_por |-> None,
     recibido_en |-> SinFecha,
     tipo_requerimiento |-> tipoReq, proveedor |-> FALSE, items |-> <<>>]

MovTipoDe_SiempreIn(tipo) == "IN"

\* confirmar: the movement kind of a document type
MovTipoDe(tipo) == IF tipo = "ING" THEN "IN" ELSE "OUT"

SedeDeMovimiento_Central(doc) == "JAUJA"

\* confirmar, line 646: sede=self.sede, the sede whose Stock rows the lines move
SedeDeMovimiento(doc) == doc.sede

\* confirmar, lines 633-653: one movement row per line, created and applied in turn;
\* ok = FALSE is the ValidationError of aplicar, db the writes made up to the raise
RECURSIVE AplicarItems(_, _, _)
AplicarItems(db, d, k) ==
    LET doc == db.docs[d]
    IN  IF k > Len(doc.items) THEN [ok |-> TRUE, db |-> db]
        ELSE LET it == doc.items[k]
                 mov == NuevoMovimiento(it.producto, SedeDeMovimiento(doc), MovTipoDe(doc.tipo),
                                        it.cantidad, it.costo_unitario, doc.numero)
                 db1 == [db EXCEPT !.movimientos = Append(@, mov)]
                 res == Aplicar(db1.stock, it.producto, mov.sede, mov.tipo, mov.qty)
             IN  IF ~res.ok THEN [ok |-> FALSE, db |-> db1]
                 ELSE AplicarItems([db1 EXCEPT !.stock = res.stock], d, k + 1)

\* confirmar, lines 661-666: a SAL derived from a pending REQ marks it attended
CascadaReqAtendido(db, d) ==
    LET doc == db.docs[d]
    IN  IF /\ doc.tipo = "SAL"
           /\ doc.origen # 0
           /\ db.docs[doc.origen].tipo = "REQ"
           /\ db.docs[doc.origen].estado = "REQ_PENDIENTE"
        THEN [db EXCEPT !.docs[doc.origen].estado = "REQ_ATENDIDO"]
        ELSE db

\* confirmar, line 669-674: the SAL is a transfer to another sede
EsTransferencia(doc) ==
    /\ doc.tipo = "SAL"
    /\ doc.sede # None
    /\ doc.sede_destino # None
    /\ doc.sede_destino # doc.sede

\* confirmar, line 678: an ING whose origen is this SAL already exists
YaExisteIng(db, d) ==
    \E j \in 1..Len(db.docs) : db.docs[j].tipo = "ING" /\ db.docs[j].origen = d

IngDeTransferencia_EnOrigen(doc, d) ==
    [NuevoDoc("ING", doc.sede, doc.sede_destino, d, "BORRADOR",
              UsuarioAlmacenDeSede(doc.sede_destino), "LOCAL")
       EXCEPT !.items = [k \in 1..Len(doc.items) |->
                           NuevoItem(doc.items[k].producto, doc.items[k].cantidad,
                                     doc.items[k].costo_unitario)]]

\* confirmar, lines 680-703: the draft ING at the destination, lines copied from the SAL
IngDeTransferencia(doc, d) ==
    [NuevoDoc("ING", doc.sede_destino, doc.sede_destino, d, "BORRADOR",
              UsuarioAlmacenDeSede(doc.sede_destino), "LOCAL")
       EXCEPT !.items = [k \in 1..Len(doc.items) |->
                           NuevoItem(doc.items[k].producto, doc.items[k].cantidad,
                                     doc.items[k].costo_unitario)]]

PuedeDespachar_Cualquiera(sede) == TRUE

\* confirmar, line 675: only the CENTRAL sede may dispatch a transfer
PuedeDespachar(sede) == SedeTipo(sede) = "CENTRAL"

\* confirmar, lines 668-703: ok = FALSE is "Solo la sede CENTRAL puede despachar"
CascadaTransferencia(db, d) ==
    LET doc == db.docs[d]
    IN  IF ~EsTransferencia(doc) THEN [ok |-> TRUE, db |-> db]
        ELSE IF ~PuedeDespachar(doc.sede) THEN [ok |-> FALSE, db |-> db]
        ELSE IF YaExisteIng(db, d) THEN [ok |-> TRUE, db |-> db]
        ELSE [ok |-> TRUE,
              db |-> [db EXCEPT !.docs = Append(@, IngDeTransferencia(doc, d))]]

DebeMarcarRecibido_Siempre(sal, ing) == sal.tipo = "SAL"

\* confirmar, lines 708-714: the origen is a confirmed SAL sent to the sede of the ING
\* and not yet marked received
DebeMarcarRecibido(sal, ing) ==
    /\ sal.tipo = "SAL"
    /\ sal.estado = "CONFIRMADO"
    /\ sal.sede_destino = ing.sede
    /\ ~sal.recibido

\* confirmar, lines 705-718: confirming the ING of a transfer marks the SAL received;
\* ahora is the value of timezone.now()
CascadaRecibido(db, d, ahora) ==
    LET doc == db.docs[d]
    IN  IF /\ doc.tipo = "ING"
           /\ doc.origen # 0
           /\ DebeMarcarRecibido(db.docs[doc.origen], doc)
        THEN [db EXCEPT !.docs[doc.origen].recibido = TRUE,
                        !.docs[doc.origen].recibido_por = doc.responsable,
                        !.docs[doc.origen].recibido_en = ahora]
        ELSE db

Rollback_Parcial(antes, parcial) == parcial

\* @transaction.atomic: the database after an exception left the atomic block
Rollback(antes, parcial) == antes

\* DocumentoInventario.confirmar(entregado_por=u) on row d: ok = FALSE is a
\* ValidationError (causa names the raise), after which the atomic block has been
\* rolled back; sucio is the database as written up to the raise
Confirmar(db, d, u, ahora) ==
    LET doc == db.docs[d]
        Falla(causa, sucio) ==
            [ok |-> FALSE, causa |-> causa, sucio |-> sucio, db |-> Rollback(db, sucio)]
    IN  IF doc.tipo = "REQ" THEN Falla("tipo", db)
        ELSE IF doc.estado # "BORRADOR" THEN Falla("estado", db)
        ELSE IF Len(doc.items) = 0 THEN Falla("sin_items", db)
        ELSE LET db1 == AsignarNumeroSiFalta(db, d)
                 r2 == AplicarItems(db1, d, 1)
             IN  IF ~r2.ok THEN Falla("stock", r2.db)
                 ELSE LET db3 == [r2.db EXCEPT
                                    !.docs[d].estado = "CONFIRMADO",
                                    !.docs[d].entregado_por = IF u # None THEN u ELSE @]
                          db4 == CascadaReqAtendido(db3, d)
                          r5 == CascadaTransferencia(db4, d)
                      IN  IF ~r5.ok THEN Falla("transferencia", r5.db)
                          ELSE [ok |-> TRUE, causa |-> "", sucio |-> r5.db,
                                db |-> CascadaRecibido(r5.db, d, ahora)]

CleanOk_SoloSede(doc) == doc.sede # None

\* DocumentoInventario.clean: sede required; kind rules of a REQ
CleanOk(doc) ==
    /\ doc.sede # None
    /\ doc.tipo = "REQ" =>
         CASE doc.tipo_requerimiento = "LOCAL" ->
                ~doc.proveedor /\ doc.sede_destino = None
           [] doc.tipo_requerimiento = "PROVEEDOR" ->
                /\ SedeTipo(doc.sede) = "CENTRAL"
                /\ doc.proveedor
                /\ doc.sede_destino = None
           [] doc.tipo_requerimiento = "ENTRE_SEDES" ->
                /\ SedeTipo(doc.sede) # "CENTRAL"
                /\ doc.sede_destino # None
                /\ SedeTipo(doc.sede_destino) = "CENTRAL"
                /\ ~doc.proveedor
           [] OTHER -> TRUE

\* DocumentoInventario.enviar_req on row d
EnviarReqRes(db, d) ==
    LET doc == db.docs[d]
    IN  IF \/ doc.tipo # "REQ"
           \/ doc.estado # "REQ_BORRADOR"
           \/ Len(doc.items) = 0
           \/ ~CleanOk(doc)
        THEN [ok |-> FALSE, db |-> db]
        ELSE [ok |-> TRUE,
              db |-> [AsignarNumeroSiFalta(db, d) EXCEPT !.docs[d].estado = "REQ_PENDIENTE"]]

\* DocumentoInventario.generar_salida_desde_req: the draft SAL, lines copied 1:1
SalDesdeReq(req, d, responsable, sedeSalida) ==
    [NuevoDoc("SAL", sedeSalida, req.sede, d, "BORRADOR", responsable, "LOCAL")
       EXCEPT !.items = [k \in 1..Len(req.items) |->
                           NuevoItem(req.items[k].producto, req.items[k].cantidad,
                                     req.items[k].costo_unitario)]]

\* req_to_sal, lines 83-92: a draft SAL already made from this REQ
SalExistente(db, d) ==
    {j \in 1..Len(db.docs) :
        /\ db.docs[j].tipo = "SAL"
        /\ db.docs[j].estado = "BORRADOR"
        /\ db.docs[j].origen = d}

\* req_to_sal(user=u, req=d): sal is the primary key of the SAL returned, ok = FALSE
\* a ValidationError or PermissionDenied
ReqToSalRes(db, d, u) ==
    LET req == db.docs[d]
        Falla == [ok |-> FALSE, sal |-> 0, db |-> db]
    IN  IF Rol(u) \notin {"ALMACEN", "JEFA"} THEN Falla
        ELSE IF req.tipo # "REQ" THEN Falla
        ELSE IF req.estado # "REQ_PENDIENTE" THEN Falla
        ELSE IF Len(req.items) = 0 THEN Falla
        ELSE IF Rol(u) # "JEFA" /\ req.sede # SedeOperativa(u) THEN Falla
        ELSE IF SalExistente(db, d) # {}
             THEN [ok |-> TRUE, sal |-> CHOOSE j \in SalExistente(db, d) : TRUE, db |-> db]
        ELSE [ok |-> TRUE, sal |-> Len(db.docs) + 1,
              db |-> [db EXCEPT
                        !.docs = Append(@, SalDesdeReq(req, d, u, SedeOperativa(u))),
                        !.docs[d].estado = "REQ_ATENDIDO"]]

----------------------------------------------------------------------------
(* Document operations as actions *)

\* commit of a handler's transaction: the database becomes db
Escribir(db) ==
    /\ stock' = db.stock
    /\ movimientos' = db.movimientos
    /\ docs' = db.docs
    /\ correlativo' = db.correlativo

\* the cap of the model on Stock.cantidad and on the number of documents holds in db
DentroDeCotas(db) ==
    /\ \A r \in DOMAIN db.stock : db.stock[r] <= MaxStock
    /\ Len(db.docs) <= MaxDocs \/ Len(db.docs) = Len(docs)

\* the documents created directly: <<tipo, sede, sede_destino, lines>>; the second line
\* of the two-line SAL asks for a product no ING brings in
Plantillas ==
    {<<"ING", "JAUJA", None, <<NuevoItem("P1", MaxQty, SinCosto)>> >>,
     <<"ING", "HYO", None, <<NuevoItem("P1", MaxQty, SinCosto)>> >>,
     <<"SAL", "JAUJA", "HYO", <<NuevoItem("P1", 1, SinCosto)>> >>,
     <<"SAL", "JAUJA", "HYO", <<NuevoItem("P1", 1, SinCosto), NuevoItem("P2", MaxQty, SinCosto)>> >>,
     <<"SAL", "HYO", "JAUJA", <<NuevoItem("P1", 1, SinCosto)>> >>,
     <<"MER", "JAUJA", None, <<NuevoItem("P1", 1, SinCosto)>> >>}

\* DocumentoInventario.objects.create(tipo=SAL/ING/MER, estado=BORRADOR, ...) followed by
\* DocumentoItem.objects.create for each line
CrearDocumento(tipo, sede, destino, items) ==
    /\ Len(docs) < MaxDocs
    /\ docs' = Append(docs, [NuevoDoc(tipo, sede, destino, 0, "BORRADOR",
                                      UsuarioAlmacenDeSede(sede), "LOCAL")
                               EXCEPT !.items = items])
    /\ lastOp' = [op |-> "crear_doc"]
    /\ UNCHANGED <<stock, movimientos, correlativo, editado, txs, emitidos, otrasTablas>>

\* sal_confirmar (SAL, entregado_por = the requesting user) or doc.confirmar() (ING, MER)
ConfirmarDoc(d, u, ahora) ==
    LET res == Confirmar(DB, d, u, ahora)
    IN  /\ DentroDeCotas(res.db)
        /\ Escribir(res.db)
        /\ lastOp' = [op |-> "confirmar", ok |-> res.ok, doc |-> d, causa |-> res.causa,
                      antes |-> DB, ahora |-> ahora,
                      movsSucios |-> Len(res.sucio.movimientos) - Len(movimientos),
                      numeroSucio |-> res.sucio.docs[d].numero]
        /\ UNCHANGED <<editado, txs, emitidos, otrasTablas>>

\* who confirms document d: a SAL goes through sal_confirmar, run here by the warehouse
\* user of its sede; ING and MER are confirmed without entregado_por
ActoresDe(d) ==
    IF docs[d].tipo = "SAL" THEN {UsuarioAlmacenDeSede(docs[d].sede)} ELSE {None}

\* get_or_create_req_borrador, lines 130-141: the draft REQ of the user at its sede
ReqBorradorDe(u) ==
    {j \in 1..Len(docs) :
        /\ docs[j].tipo = "REQ"
        /\ docs[j].estado = "REQ_BORRADOR"
        /\ docs[j].responsable = u
        /\ docs[j].sede = SedeOperativa(u)}

\* _normalizar_req_borrador_por_rol
NormalizarReqBorradorPorRol(doc, u) ==
    IF doc.tipo # "REQ" \/ doc.estado # "REQ_BORRADOR" THEN doc
    ELSE IF Rol(u) = "SOLICITANTE"
         THEN [doc EXCEPT !.tipo_requerimiento = "LOCAL", !.sede_destino = None,
                          !.proveedor = FALSE]
    ELSE IF Rol(u) = "ALMACEN"
         THEN IF SedeTipo(doc.sede) = "CENTRAL"
              THEN [doc EXCEPT !.tipo_requerimiento = "PROVEEDOR", !.sede_destino = None]
              ELSE [doc EXCEPT !.tipo_requerimiento = "ENTRE_SEDES", !.sede_destino = "JAUJA",
                               !.proveedor = FALSE]
    ELSE doc

\* get_or_create_req_borrador, lines 153-177: the defaults of a new draft REQ
NuevoReq(u) ==
    LET sede == SedeOperativa(u)
    IN  IF Rol(u) = "ALMACEN"
        THEN IF SedeTipo(sede) = "CENTRAL"
             THEN NuevoDoc("REQ", sede, None, 0, "REQ_BORRADOR", u, "PROVEEDOR")
             ELSE NuevoDoc("REQ", sede, "JAUJA", 0, "REQ_BORRADOR", u, "ENTRE_SEDES")
        ELSE NuevoDoc("REQ", sede, None, 0, "REQ_BORRADOR", u, "LOCAL")

\* get_or_create_req_borrador(user=u); each user starts one requisition
GetOrCreateReqBorrador(u) ==
    /\ IF ReqBorradorDe(u) # {}
       THEN LET j == CHOOSE j \in ReqBorradorDe(u) : TRUE
            IN  docs' = [docs EXCEPT ![j] = NormalizarReqBorradorPorRol(@, u)]
       ELSE /\ Len(docs) < MaxDocs
            /\ ~\E j \in 1..Len(docs) : docs[j].tipo = "REQ" /\ docs[j].responsable = u
            /\ docs' = Append(docs, NuevoReq(u))
    /\ lastOp' = [op |-> "get_or_create_req_borrador"]
    /\ UNCHANGED <<stock, movimientos, correlativo, editado, txs, emitidos, otrasTablas>>

\* position of the line of product p in the lines of a document, 0 when there is none
LineaDe(items, p) ==
    IF \E k \in 1..Len(items) : items[k].producto = p
    THEN CHOOSE k \in 1..Len(items) : items[k].producto = p
    ELSE 0

\* cantidad of the line of product p, 0 when there is none
CantidadDeLinea(items, p) ==
    IF LineaDe(items, p) = 0 THEN 0 ELSE items[LineaDe(items, p)].cantidad

\* add_item_to_req(user=u, req=d, producto=p, cantidad=c), lines 190-231
AddItemToReqSinCota(u, d, p, c) ==
    LET req == docs[d]
        k == LineaDe(req.items, p)
        ok == /\ Rol(u) \in {"SOLICITANTE", "JEFA"}
              /\ req.tipo = "REQ"
              /\ req.estado = "REQ_BORRADOR"
              /\ req.responsable = u
              /\ c > 0
              /\ c <= MAX_QTY
    IN  /\ docs' = IF ~ok THEN docs
                   ELSE IF k = 0
                        THEN [docs EXCEPT ![d].items = Append(@, NuevoItem(p, c, CostoProducto(p)))]
                        ELSE [docs EXCEPT ![d].items[k].cantidad = @ + c]
        /\ lastOp' = [op |-> "add_item_to_req", ok |-> ok, doc |-> d]
        /\ UNCHANGED <<stock, movimientos, correlativo, editado, txs, emitidos, otrasTablas>>

\* add_item_to_req(user=u, req=d, producto=p, cantidad=c) while the line stays within
\* the small quantities
AddItemToReq(u, d, p, c) ==
    /\ LineaDe(docs[d].items, p) # 0 => CantidadDeLinea(docs[d].items, p) + c <= MaxQty
    /\ AddItemToReqSinCota(u, d, p, c)

\* req.enviar_req()
EnviarReq(d) ==
    LET res == EnviarReqRes(DB, d)
    IN  /\ Escribir(res.db)
        /\ lastOp' = [op |-> "enviar_req", ok |-> res.ok, doc |-> d, antes |-> DB]
        /\ UNCHANGED <<editado, txs, emitidos, otrasTablas>>

\* req_to_sal(user=u, req=d); segunda: the call before this one was a successful
\* req_to_sal on the same REQ, which returned salPrevia
ReqToSal(u, d) ==
    LET res == ReqToSalRes(DB, d, u)
        segunda == lastOp.op = "req_to_sal" /\ lastOp.ok /\ lastOp.doc = d
    IN  /\ DentroDeCotas(res.db)
        /\ Escribir(res.db)
        /\ lastOp' = [op |-> "req_to_sal", ok |-> res.ok, doc |-> d, sal |-> res.sal,
                      segunda |-> segunda,
                      salPrevia |-> IF segunda THEN lastOp.sal ELSE 0]
        /\ UNCHANGED <<editado, txs, emitidos, otrasTablas>>

----------------------------------------------------------------------------
(* Specification of the document engine: handlers run one after another *)

Solicitantes == {"tec_hyo"}

Atendedores == {"tec_hyo", "alm_hyo", "jefa"}

\* the REQ documents
Reqs == {d \in 1..Len(docs) : docs[d].tipo = "REQ"}

\* the templates of which no document has been created yet
PlantillasNuevas ==
    {t \in Plantillas :
        ~\E j \in 1..Len(docs) :
            /\ docs[j].origen = 0
            /\ docs[j].tipo = t[1]
            /\ docs[j].sede = t[2]
            /\ docs[j].sede_destino = t[3]
            /\ Len(docs[j].items) = Len(t[4])}

\* the quantities added to a requisition line: one unit and the largest quantity
CantidadesReq == {1, MaxQty}

Next ==
    \/ \E t \in PlantillasNuevas : CrearDocumento(t[1], t[2], t[3], t[4])
    \/ \E d \in 1..Len(docs) : \E u \in ActoresDe(d) : ConfirmarDoc(d, u, PrimerInstante)
    \/ \E u \in Solicitantes : GetOrCreateReqBorrador(u)
    \/ \E u \in Solicitantes, d \in Reqs, c \in CantidadesReq : AddItemToReq(u, d, "P1", c)
    \/ \E d \in Reqs : EnviarReq(d)
    \/ \E u \in Atendedores, d \in Reqs : ReqToSal(u, d)

Spec == Init /\ [][Next]_vars

----------------------------------------------------------------------------
(* Specification of the reception of transfers: besides the ING that confirmar creates,
   ING documents are created directly with an origen, so that confirming an ING meets
   an origen that is a draft, that was sent elsewhere, or that is already received *)

\* DocumentoInventario.objects.create(tipo=ING, sede=..., origen=<document d>) with one
\* line, while the sede has no draft ING of that origen
CrearIngConOrigen(d, sede) ==
    /\ Len(docs) < MaxDocs + 1
    /\ ~\E j \in 1..Len(docs) :
          /\ docs[j].tipo = "ING"
          /\ docs[j].origen = d
          /\ docs[j].sede = sede
          /\ docs[j].estado = "BORRADOR"
    /\ docs' = Append(docs, [NuevoDoc("ING", sede, None, d, "BORRADOR",
                                      UsuarioAlmacenDeSede(sede), "LOCAL")
                               EXCEPT !.items = <<NuevoItem("P1", 1, SinCosto)>>])
    /\ lastOp' = [op |-> "crear_doc"]
    /\ UNCHANGED <<stock, movimientos, correlativo, editado, txs, emitidos, otrasTablas>>

\* one ING that brings stock to JAUJA and one SAL from JAUJA, each created once
PlantillasRecibido ==
    {t \in Plantillas :
        /\ t[2] = "JAUJA"
        /\ t[1] \in {"ING", "SAL"}
        /\ Len(t[4]) = 1
        /\ ~\E j \in 1..Len(docs) : docs[j].tipo = t[1] /\ docs[j].origen = 0}

\* the SAL documents
Sals == {d \in 1..Len(docs) : docs[d].tipo = "SAL"}

\* the instants at which document d is confirmed: several for an ING with an origen
InstantesDe(d) ==
    IF docs[d].tipo = "ING" /\ docs[d].origen # 0 THEN Instantes ELSE {PrimerInstante}

NextRecibido ==
    \/ \E t \in PlantillasRecibido : CrearDocumento(t[1], t[2], t[3], t[4])
    \/ \E d \in Sals, s \in Sedes : CrearIngConOrigen(d, s)
    \/ \E d \in 1..Len(docs) : \E u \in ActoresDe(d), ahora \in InstantesDe(d) :
          ConfirmarDoc(d, u, ahora)

SpecRecibido == Init /\ [][NextRecibido]_vars

----------------------------------------------------------------------------
(* Specification of the sending of requisitions: draft REQs are saved with any
   combination of kind, destination and supplier (save does not run clean), then sent *)

\* DocumentoInventario.objects.create(tipo=REQ, estado=REQ_BORRADOR, ...) by user u at
\* its sede, with n lines of P1
CrearReq(u, tipoReq, destino, proveedor, n) ==
    /\ Len(docs) < MaxReqs
    /\ docs' = Append(docs, [NuevoDoc("REQ", SedeOperativa(u), destino, 0, "REQ_BORRADOR",
                                      u, tipoReq)
                               EXCEPT !.proveedor = proveedor,
                                      !.items = [k \in 1..n |-> NuevoItem("P1", 1, SinCosto)]])
    /\ lastOp' = [op |-> "crear_doc"]
    /\ UNCHANGED <<stock, movimientos, correlativo, editado, txs, emitidos, otrasTablas>>

\* TipoRequerimiento
TiposReq == {"LOCAL", "PROVEEDOR", "ENTRE_SEDES"}

NextEnvio ==
    \/ \E u \in {"tec_hyo", "jefa"}, t \in TiposReq, dst \in Sedes \cup {None},
          pr \in BOOLEAN, n \in 0..1 : CrearReq(u, t, dst, pr, n)
    \/ \E d \in Reqs : EnviarReq(d)

SpecEnvio == Init /\ [][NextEnvio]_vars

----------------------------------------------------------------------------
(* Specification of the lines of a document: quantities are edited through the
   requisition services, liquidation quantities are written by saving the line *)

\* set_item_qty(user=u, req=d, producto=p, cantidad=c)
SetItemQty(u, d, p, c) ==
    LET req == docs[d]
        k == LineaDe(req.items, p)
        ok == /\ Rol(u) \in {"SOLICITANTE", "JEFA"}
              /\ req.tipo = "REQ"
              /\ req.estado = "REQ_BORRADOR"
              /\ req.responsable = u
              /\ c > 0
              /\ k # 0
              /\ c <= MAX_QTY
    IN  /\ docs' = IF ok THEN [docs EXCEPT ![d].items[k].cantidad = c] ELSE docs
        /\ lastOp' = [op |-> "set_item_qty", ok |-> ok, doc |-> d, linea |-> k,
                      cantidad |-> c, antes |-> DB]
        /\ UNCHANGED <<stock, movimientos, correlativo, editado, txs, emitidos, otrasTablas>>

\* DocumentoItem.clean: the liquidated quantities fit in the quantity
ItemCleanOk(it) ==
    it.cantidad_devuelta + it.cantidad_merma + it.cantidad_usada <= it.cantidad

\* item.cantidad_devuelta, cantidad_merma, cantidad_usada = dev, mer, usa; item.save():
\* DocumentoItem.save fills the cost and writes the row; it does not call clean
ItemSave(d, k, dev, mer, usa) ==
    /\ docs' = [docs EXCEPT ![d].items[k].cantidad_devuelta = dev,
                            ![d].items[k].cantidad_merma = mer,
                            ![d].items[k].cantidad_usada = usa]
    /\ lastOp' = [op |-> "item_save", ok |-> TRUE, doc |-> d, linea |-> k,
                  cantidad |-> docs[d].items[k].cantidad, antes |-> DB]
    /\ UNCHANGED <<stock, movimientos, correlativo, editado, txs, emitidos, otrasTablas>>

\* the liquidated quantities written to a line
Liquidadas == 0..1

NextItems ==
    \/ \E u \in Solicitantes : GetOrCreateReqBorrador(u)
    \/ \E u \in Solicitantes, d \in Reqs, p \in Productos, c \in 1..MaxQty :
          AddItemToReq(u, d, p, c)
    \/ \E u \in Solicitantes, d \in Reqs, p \in Productos, c \in 1..MaxQty :
          SetItemQty(u, d, p, c)
    \/ \E d \in 1..Len(docs) : \E k \in 1..Len(docs[d].items) :
          \E dev \in Liquidadas, mer \in Liquidadas, usa \in Liquidadas :
             ItemSave(d, k, dev, mer, usa)

SpecItems == Init /\ [][NextItems]_vars

----------------------------------------------------------------------------
(* Specification of confirm over documents of several lines: receipts bring both
   products to the central sede, dispatches and waste take them out *)

PlantillasConfirmar ==
    {<<"ING", "JAUJA", None, <<NuevoItem("P1", MaxQty, SinCosto), NuevoItem("P2", 1, SinCosto)>> >>,
     <<"SAL", "JAUJA", "HYO", <<NuevoItem("P1", 1, SinCosto), NuevoItem("P2", 1, SinCosto)>> >>,
     <<"SAL", "JAUJA", None, <<NuevoItem("P2", 1, SinCosto), NuevoItem("P1", MaxQty, SinCosto)>> >>,
     <<"MER", "JAUJA", None, <<NuevoItem("P1", 1, SinCosto)>> >>}

NextConfirmar ==
    \/ \E t \in PlantillasConfirmar : CrearDocumento(t[1], t[2], t[3], t[4])
    \/ \E d \in 1..Len(docs) : \E u \in ActoresDe(d) : ConfirmarDoc(d, u, PrimerInstante)

SpecConfirmar == Init /\ [][NextConfirmar]_vars

----------------------------------------------------------------------------
(* Specification of the draft requisition under concurrent requests: each call of
   get_or_create_req_borrador is a transaction that first selects the user's draft
   FOR UPDATE and, having found none, creates one.  A SELECT that returns no row locks
   nothing, and no unique index covers (responsable, sede, estado) *)

noBorrador == <<stock, movimientos, correlativo, editado, txs, emitidos,
                sedes, productos, liquidaciones, logs>>

\* get_or_create_req_borrador(user=u), lines 130-151: the SELECT ... FOR UPDATE; a draft
\* that is found is normalised and returned, which ends the call
GocLeer(u) ==
    /\ Len(enCurso) < MaxEnCurso
    /\ IF ReqBorradorDe(u) # {}
       THEN LET j == CHOOSE j \in ReqBorradorDe(u) : TRUE
            IN  /\ docs' = [docs EXCEPT ![j] = NormalizarReqBorradorPorRol(@, u)]
                /\ UNCHANGED enCurso
       ELSE /\ enCurso' = Append(enCurso, [user |-> u])
            /\ UNCHANGED docs
    /\ lastOp' = [op |-> "goc_leer", user |-> u]
    /\ UNCHANGED noBorrador

\* get_or_create_req_borrador, lines 153-179, of the call k that found no draft: the
\* draft is created and the transaction commits
GocCrear(k) ==
    /\ Len(docs) < MaxDocs
    /\ docs' = Append(docs, NuevoReq(enCurso[k].user))
    /\ enCurso' = Quitar(enCurso, k)
    /\ lastOp' = [op |-> "goc_crear", user |-> enCurso[k].user]
    /\ UNCHANGED noBorrador

NextBorrador ==
    \/ \E u \in Atendedores : GocLeer(u)
    \/ \E k \in 1..Len(enCurso) : GocCrear(k)
    \/ \E u \in Solicitantes, d \in Reqs, c \in 1..MaxQty : AddItemToReq(u, d, "P1", c)
    \/ \E d \in Reqs : EnviarReq(d)

SpecBorrador == Init /\ [][NextBorrador]_vars

----------------------------------------------------------------------------
(* Specification of the internal codes of Producto.  A codigo_interno is modelled by
   whether it starts with INTERNAL_PREFIX and by the characters after the prefix, each
   a digit 0..9.  Producto.save without a code runs in its own transaction: it reads
   the greatest existing code, then inserts *)

\* n as a string of decimal digits
RECURSIVE DigitosDe(_)
DigitosDe(n) == IF n < 10 THEN <<n>> ELSE Append(DigitosDe(n \div 10), n % 10)

\* int(m.group(1))
RECURSIVE ValorDe(_)
ValorDe(ds) ==
    IF ds = <<>> THEN 0 ELSE ValorDe(SubSeq(ds, 1, Len(ds) - 1)) * 10 + ds[Len(ds)]

\* f"{INTERNAL_PREFIX}{n:06d}": zero-padded to at least six digits
FormatearCodigo(n) ==
    LET ds == DigitosDe(n)
    IN  [pre |-> TRUE,
         resto |-> IF Len(ds) >= Ancho THEN ds ELSE [i \in 1..(Ancho - Len(ds)) |-> 0] \o ds]

\* INTERNAL_RE.match(code): the prefix followed by exactly six digits
InternalReMatch(code) == code.pre /\ Len(code.resto) = Ancho

\* string order of two codes having the prefix
MenorCodigo(a, b) ==
    \E i \in 1..Len(b.resto) :
        /\ \A j \in 1..(i - 1) : j <= Len(a.resto) /\ a.resto[j] = b.resto[j]
        /\ (i > Len(a.resto) \/ (i - 1 < Len(a.resto) /\ a.resto[i] < b.resto[i]))

\* codigo_interno of the rows
CodigosDe(tabla) == {tabla[j].codigo_interno : j \in 1..Len(tabla)}

\* Producto._next_internal_code over the committed rows
NextInternalCode(tabla) ==
    LET conPrefijo == {c \in CodigosDe(tabla) : c.pre}
    IN  IF conPrefijo = {} THEN FormatearCodigo(1)
        ELSE LET max_code == CHOOSE c \in conPrefijo :
                                 \A o \in conPrefijo : o = c \/ MenorCodigo(o, c)
             IN  IF InternalReMatch(max_code)
                 THEN FormatearCodigo(ValorDe(max_code.resto) + 1)
                 ELSE FormatearCodigo(1)

noProductos == <<stock, movimientos, docs, correlativo, editado, txs, emitidos,
                 sedes, liquidaciones, logs>>

\* create_product_simple with a posted code: Producto.objects.get_or_create(
\* codigo_interno=codigo), the code stored as posted
CrearProductoConCodigo(codigo) ==
    /\ Len(productos) < MaxProductos
    /\ productos' = IF codigo \in CodigosDe(productos) THEN productos
                    ELSE Append(productos, [codigo_interno |-> codigo])
    /\ lastOp' = [op |-> "create_product_simple"]
    /\ UNCHANGED <<enCurso, noProductos>>

\* Producto.save without codigo_interno, first statement of its atomic block: the code
\* is computed from the rows committed so far
ProductoSaveLeer ==
    /\ Len(enCurso) < MaxEnCurso
    /\ Len(productos) + Len(enCurso) < MaxProductos
    /\ enCurso' = Append(enCurso, [codigo |-> NextInternalCode(productos)])
    /\ lastOp' = [op |-> "producto_leer"]
    /\ UNCHANGED <<productos, noProductos>>

\* Producto.save without codigo_interno, super().save() of the call k and commit: the
\* unique index on codigo_interno refuses a code that is stored (IntegrityError)
ProductoSaveGuardar(k) ==
    LET codigo == enCurso[k].codigo
        ok == codigo \notin CodigosDe(productos)
    IN  /\ productos' = IF ok THEN Append(productos, [codigo_interno |-> codigo]) ELSE productos
        /\ enCurso' = Quitar(enCurso, k)
        /\ lastOp' = [op |-> "producto_save", ok |-> ok, codigo |-> codigo,
                      antes |-> productos]
        /\ UNCHANGED noProductos

\* codes posted to create_product_simple: TC-ALM-000001, TC-ALM-000002, TC-ALM-7 and 7
CodigosPosteados ==
    {FormatearCodigo(1), FormatearCodigo(2), [pre |-> TRUE, resto |-> <<7>>],
     [pre |-> FALSE, resto |-> <<7>>]}

NextProductos ==
    \/ \E c \in CodigosPosteados : CrearProductoConCodigo(c)
    \/ ProductoSaveLeer
    \/ \E k \in 1..Len(enCurso) : ProductoSaveGuardar(k)

SpecProductos == Init /\ [][NextProductos]_vars

----------------------------------------------------------------------------
(* Specification of the Sede table: rows are added and changed through the admin
   (whose form runs full_clean before the row is saved), by the user-creation script and by the signal that
   gives a new user a default sede *)

\* the names typed into the admin add form
NombresSede == {"JAUJA", "SEDE-CENTRAL", "NUEVA"}

\* nombre is unique
NombreLibre(tabla, nombre) == \A j \in 1..Len(tabla) : tabla[j].nombre # nombre

\* Sede.clean on a row with primary key pk (0: not saved yet)
SedeCleanOk(tabla, pk, row) ==
    row.tipo = "CENTRAL" =>
        ~\E j \in 1..Len(tabla) : j # pk /\ tabla[j].tipo = "CENTRAL"

\* the tables the Sede operations leave alone
noSedes == <<stock, movimientos, docs, correlativo, editado, txs, emitidos,
             productos, liquidaciones, logs>>

\* SedeAdmin add (pk = 0) or change (pk > 0) request, first half: the form is validated
\* against the rows committed so far (unique nombre, Sede.clean); an invalid form ends
\* the request
AdminValidarSede(pk, nombre, tipo, activo) ==
    LET row == [nombre |-> nombre, tipo |-> tipo, activo |-> activo]
        ok == /\ (pk = 0 => NombreLibre(sedes, nombre))
              /\ SedeCleanOk(sedes, pk, row)
    IN  /\ Len(enCurso) < MaxEnCurso
        /\ (pk = 0 => Len(sedes) + Cardinality({k \in 1..Len(enCurso) : enCurso[k].pk = 0}) < MaxSedes)
        /\ enCurso' = IF ok THEN Append(enCurso, [pk |-> pk, row |-> row]) ELSE enCurso
        /\ lastOp' = [op |-> "sede_validar", ok |-> ok, tipo |-> tipo, activo |-> activo]
        /\ UNCHANGED <<sedes, noSedes>>

\* second half of request k: the validated row is saved; the unique index on nombre
\* refuses an insert whose nombre was taken meanwhile
AdminGuardarSede(k) ==
    LET f == enCurso[k]
        ok == f.pk = 0 => NombreLibre(sedes, f.row.nombre)
    IN  /\ sedes' = IF ~ok THEN sedes
                    ELSE IF f.pk = 0 THEN Append(sedes, f.row)
                    ELSE [sedes EXCEPT ![f.pk] = f.row]
        /\ enCurso' = Quitar(enCurso, k)
        /\ lastOp' = [op |-> "sede_guardar", ok |-> ok, tipo |-> f.row.tipo, activo |-> f.row.activo]
        /\ UNCHANGED noSedes

\* Sede.objects.create(nombre=..., tipo=...) in autocommit: IntegrityError when the
\* nombre is taken
SedeCreate(tabla, nombre, tipo) ==
    IF NombreLibre(tabla, nombre)
    THEN [ok |-> TRUE, tabla |-> Append(tabla, [nombre |-> nombre, tipo |-> tipo, activo |-> TRUE])]
    ELSE [ok |-> FALSE, tabla |-> tabla]

\* crear_usuarios_prueba: a CENTRAL and a SECUNDARIO sede are created when the table has
\* none; an IntegrityError ends the script
ScriptCrearSedes ==
    LET hayCentral == \E j \in 1..Len(sedes) : sedes[j].tipo = "CENTRAL"
        haySecundaria == \E j \in 1..Len(sedes) : sedes[j].tipo = "SECUNDARIO"
        r1 == IF hayCentral THEN [ok |-> TRUE, tabla |-> sedes]
              ELSE SedeCreate(sedes, "SEDE-CENTRAL", "CENTRAL")
        r2 == IF ~r1.ok \/ haySecundaria THEN r1
              ELSE SedeCreate(r1.tabla, "SEDE-SECUNDARIA", "SECUNDARIO")
    IN  /\ Len(r2.tabla) <= MaxSedes
        /\ sedes' = r2.tabla
        /\ lastOp' = [op |-> "script_sedes", ok |-> r2.ok, tipo |-> "", activo |-> TRUE]
        /\ UNCHANGED <<enCurso, noSedes>>

\* crear_profile_usuario (post_save of User): without an active sede a SECUNDARIO
\* SEDE-DEFAULT is created, any exception swallowed
SignalSedeDefault ==
    LET hayActiva == \E j \in 1..Len(sedes) : sedes[j].activo
        r == IF hayActiva THEN [ok |-> TRUE, tabla |-> sedes]
             ELSE SedeCreate(sedes, "SEDE-DEFAULT", "SECUNDARIO")
    IN  /\ Len(r.tabla) <= MaxSedes
        /\ sedes' = r.tabla
        /\ lastOp' = [op |-> "signal_sede", ok |-> r.ok, tipo |-> "", activo |-> TRUE]
        /\ UNCHANGED <<enCurso, noSedes>>

TiposSede == {"CENTRAL", "SECUNDARIO"}

NextSedes ==
    \/ \E n \in NombresSede, t \in TiposSede, a \in BOOLEAN : AdminValidarSede(0, n, t, a)
    \/ \E i \in 1..Len(sedes), t \in TiposSede, a \in BOOLEAN :
          AdminValidarSede(i, sedes[i].nombre, t, a)
    \/ \E k \in 1..Len(enCurso) : AdminGuardarSede(k)
    \/ ScriptCrearSedes
    \/ SignalSedeDefault

SpecSedes == Init /\ [][NextSedes]_vars

----------------------------------------------------------------------------
(* Specification of the weekly liquidation: the stock of a sede changes, and
   LiquidacionService liquidates a sede or the central warehouse for a week.  The SQL
   functions the service calls are not part of the repository's sources; they are
   modelled from the description of the reconciliation run *)

Semanas == 1..MaxSemana

Anios == {2026}

\* the rows of LiquidacionSemanal of one (semana, anio, sede)
LiquidacionesDe(tabla, semana, anio, sede_id) ==
    {r \in tabla : r.semana = semana /\ r.anio = anio /\ r.sede = sede_id}

\* unique_together = [semana, anio, sede, producto]
MismaClave(a, b) ==
    a.semana = b.semana /\ a.anio = b.anio /\ a.sede = b.sede /\ a.producto = b.producto

\* opening stock of the period, derived from the MovimientoInventario history; no
\* movement row exists in this specification
StockInicial(p, s) == 0

\* SELECT liquidar_sede(sede_id, semana, anio, usuario_id, observaciones): one row per
\* product with a Stock row in the sede, closing stock the current Stock.cantidad.
\* What the function does with a row whose key exists is not known: conflicto is
\* "error" (the unique index refuses the insert and the statement fails) or "upsert"
\* (the row is overwritten)
SqlLiquidarSede(tabla, sede_id, semana, anio, conflicto) ==
    LET nombre == sedes[sede_id].nombre
        nuevas == IF sede_id \in 1..Len(sedes)
                  THEN {[semana |-> semana, anio |-> anio, sede |-> sede_id, producto |-> p,
                         stock_final |-> Cantidad(stock, p, nombre),
                         diferencia |-> StockInicial(p, nombre) - Cantidad(stock, p, nombre)]
                        : p \in {q \in Productos : ExisteStock(stock, q, nombre)}}
                  ELSE {}
        choque == \E n \in nuevas, r \in tabla : MismaClave(n, r)
    IN  IF choque /\ conflicto = "error"
        THEN [ok |-> FALSE, tabla |-> tabla]
        ELSE [ok |-> TRUE,
              tabla |-> {r \in tabla : ~\E n \in nuevas : MismaClave(n, r)} \cup nuevas]

\* LiquidacionService._registrar_log: LiquidacionLog.objects.create inside try/except;
\* falla: the create raises, which is printed and swallowed
RegistrarLog(tabla, tipo, semana, anio, sede_id, procesados, discrepancias, falla) ==
    IF falla THEN tabla
    ELSE Append(tabla, [tipo |-> tipo, semana |-> semana, anio |-> anio, sede |-> sede_id,
                        productos_procesados |-> procesados,
                        discrepancias_detectadas |-> discrepancias])

noLiquidacion == <<stock, movimientos, docs, correlativo, editado, txs, emitidos,
                   sedes, productos, enCurso>>

\* LiquidacionService.liquidar_sede, each statement in autocommit: the SQL function, the
\* SELECT of the rows of (semana, anio, sede), the arguments of the log entry (among
\* them Sede.objects.get(id=sede_id).nombre) and _registrar_log; any exception is
\* re-raised as "Error en liquidación de sede"
LiquidarSede(sede_id, semana, anio, conflicto, logFalla) ==
    LET sql == SqlLiquidarSede(liquidaciones, sede_id, semana, anio, conflicto)
        datos == LiquidacionesDe(sql.tabla, semana, anio, sede_id)
        sedeExiste == sede_id \in 1..Len(sedes)
        ok == sql.ok /\ sedeExiste
    IN  /\ Len(logs) < MaxLogs
        /\ liquidaciones' = sql.tabla
        /\ logs' = IF ok
                   THEN RegistrarLog(logs, "LIQUIDACION_SEDE", semana, anio, sede_id,
                                     Cardinality(datos),
                                     Cardinality({d \in datos : d.diferencia # 0}), logFalla)
                   ELSE logs
        /\ lastOp' = [op |-> "liquidar_sede", ok |-> ok, computoOk |-> sql.ok,
                      existia |-> LiquidacionesDe(liquidaciones, semana, anio, sede_id) # {},
                      calculado |-> TRUE,
                      antes |-> [liquidaciones |-> liquidaciones, logs |-> logs]]
        /\ UNCHANGED noLiquidacion

\* the primary keys of the CENTRAL rows of Sede
Centrales == {j \in 1..Len(sedes) : sedes[j].tipo = "CENTRAL"}

\* SELECT liquidar_almacen_central(semana, anio, usuario_id, observaciones): the same
\* computation for the CENTRAL sede
SqlLiquidarCentral(tabla, semana, anio, conflicto) ==
    IF Centrales = {} THEN [ok |-> TRUE, tabla |-> tabla]
    ELSE SqlLiquidarSede(tabla, CHOOSE j \in Centrales : \A k \in Centrales : j <= k,
                         semana, anio, conflicto)

\* LiquidacionService.liquidar_central: as liquidar_sede, with the rows of the CENTRAL
\* sedes selected and a constant description
LiquidarCentral(semana, anio, conflicto, logFalla) ==
    LET sql == SqlLiquidarCentral(liquidaciones, semana, anio, conflicto)
        datos == {r \in sql.tabla : r.semana = semana /\ r.anio = anio /\ r.sede \in Centrales}
    IN  /\ Len(logs) < MaxLogs
        /\ liquidaciones' = sql.tabla
        /\ logs' = IF sql.ok
                   THEN RegistrarLog(logs, "LIQUIDACION_CENTRAL", semana, anio, 0,
                                     Cardinality(datos), 0, logFalla)
                   ELSE logs
        /\ lastOp' = [op |-> "liquidar_central", ok |-> sql.ok, computoOk |-> sql.ok,
                      existia |-> \E r \in liquidaciones :
                                     r.semana = semana /\ r.anio = anio /\ r.sede \in Centrales,
                      calculado |-> TRUE,
                      antes |-> [liquidaciones |-> liquidaciones, logs |-> logs]]
        /\ UNCHANGED noLiquidacion

Conflictos == {"error", "upsert"}

\* the sede_id values passed to liquidar_sede: the rows of Sede and one id without a row
SedeIds == 1..(Len(sedes) + 1)

NextLiquidacion ==
    \/ \E r \in ParesLiquidacion : AddStockSimple(r[1], r[2], 1)
    \/ \E i \in SedeIds, w \in Semanas, a \in Anios, c \in Conflictos, f \in BOOLEAN :
          LiquidarSede(i, w, a, c, f)
    \/ \E w \in Semanas, a \in Anios, c \in Conflictos, f \in BOOLEAN :
          LiquidarCentral(w, a, c, f)

SpecLiquidacion == Init /\ [][NextLiquidacion]_vars

----------------------------------------------------------------------------
(* Number assignment under concurrent transactions.  Each transaction is one enclosing
   atomic block (confirmar, enviar_req) that calls asignar_numero_si_falta once for a
   document without number; correlativo is the committed Correlativo table.  Row locks
   and the unique index behave as in a READ COMMITTED database that implements
   SELECT ... FOR UPDATE: a lock is held until the transaction ends, and an uncommitted
   insert is invisible to other transactions but makes their insert of the same key wait. *)

TiposCorr == {"SAL", "ING"}

NuevaTx(tipo) ==
    [pc |-> "get", tipo |-> tipo, lock |-> FALSE, creado |-> FALSE, reintento |-> FALSE,
     leido |-> 0, n |-> 0, numero |-> SinNumero, commit |-> 0]

Viva(tx) == tx.pc \notin {"committed", "aborted"}

\* another live transaction holds the lock of the Correlativo row of the tipo
FilaBloqueada(t) ==
    \E o \in 1..Len(txs) : o # t /\ Viva(txs[o]) /\ txs[o].tipo = txs[t].tipo /\ txs[o].lock

SelectForUpdate_SinBloqueo(t) == [puede |-> TRUE, lock |-> FALSE]

\* Correlativo.objects.select_for_update(): the read waits for the row lock and takes it
SelectForUpdate(t) == [puede |-> ~FilaBloqueada(t), lock |-> TRUE]

\* a request enters its atomic block for a document of the tipo
TxBegin(tipo) ==
    /\ Len(txs) < MaxTxs
    /\ txs' = Append(txs, NuevaTx(tipo))
    /\ UNCHANGED <<stock, movimientos, docs, correlativo, lastOp, editado, emitidos, otrasTablas>>

\* get_or_create: self.get(tipo=...) FOR UPDATE; DoesNotExist leads to the insert on
\* the first try and is raised on the retry after IntegrityError
CorrGet(t) ==
    LET tx == txs[t]
    IN  /\ tx.pc \in {"get", "reget"}
        /\ IF tx.tipo \in DOMAIN correlativo
           THEN /\ SelectForUpdate(t).puede
                /\ txs' = [txs EXCEPT ![t].pc = "locked",
                                      ![t].leido = correlativo[tx.tipo],
                                      ![t].lock = SelectForUpdate(t).lock]
           ELSE txs' = [txs EXCEPT ![t].pc = IF tx.pc = "get" THEN "insert" ELSE "aborted"]
        /\ UNCHANGED <<stock, movimientos, docs, correlativo, lastOp, editado, emitidos, otrasTablas>>

\* get_or_create: self.create(tipo=...) in a savepoint; the unique index on tipo makes
\* the insert wait for an uncommitted insert of the same tipo, and raise IntegrityError
\* (caught, then retried as a get) when the row has been committed meanwhile
CorrInsert(t) ==
    LET tx == txs[t]
    IN  /\ tx.pc = "insert"
        /\ IF tx.tipo \in DOMAIN correlativo
           THEN txs' = [txs EXCEPT ![t].pc = "reget", ![t].reintento = TRUE]
           ELSE /\ ~\E o \in 1..Len(txs) :
                      o # t /\ Viva(txs[o]) /\ txs[o].tipo = tx.tipo /\ txs[o].creado
                /\ txs' = [txs EXCEPT ![t].pc = "locked", ![t].creado = TRUE,
                                      ![t].lock = TRUE, ![t].leido = 0]
        /\ UNCHANGED <<stock, movimientos, docs, correlativo, lastOp, editado, emitidos, otrasTablas>>

\* corr.ultimo_numero += 1; corr.save(); self.numero = self._formatear_numero(...):
\* the UPDATE takes the row lock, the call has now obtained its number
CorrIncrementar(t) ==
    LET tx == txs[t]
        n == tx.leido + 1
    IN  /\ tx.pc = "locked"
        /\ ~FilaBloqueada(t)
        /\ txs' = [txs EXCEPT ![t].pc = "numerado", ![t].lock = TRUE, ![t].n = n,
                              ![t].numero = FormatearNumero(tx.tipo, n)]
        /\ emitidos' = Append(emitidos, [tx |-> t, tipo |-> tx.tipo, n |-> n])
        /\ UNCHANGED <<stock, movimientos, docs, correlativo, lastOp, editado, otrasTablas>>

\* self.save(update_fields=["numero"]): DocumentoInventario.numero is unique, so the save
\* waits for an uncommitted document with the same numero and raises IntegrityError when
\* a committed document has it
CorrGuardarNumero(t) ==
    LET tx == txs[t]
        Igual(o) == o # t /\ txs[o].numero = tx.numero
    IN  /\ tx.pc = "numerado"
        /\ ~\E o \in 1..Len(txs) : Igual(o) /\ txs[o].pc = "guardado"
        /\ txs' = [txs EXCEPT ![t].pc =
                      IF \E o \in 1..Len(txs) : Igual(o) /\ txs[o].pc = "committed"
                      THEN "aborted" ELSE "guardado",
                      ![t].lock = IF \E o \in 1..Len(txs) : Igual(o) /\ txs[o].pc = "committed"
                                  THEN FALSE ELSE @]
        /\ UNCHANGED <<stock, movimientos, docs, correlativo, lastOp, editado, emitidos, otrasTablas>>

\* number of transactions committed so far
Cometidas == Cardinality({o \in 1..Len(txs) : txs[o].pc = "committed"})

\* the enclosing atomic block ends normally: the counter row becomes visible, locks go
TxCommit(t) ==
    LET tx == txs[t]
    IN  /\ tx.pc = "guardado"
        /\ correlativo' = PonerCorrelativo(correlativo, tx.tipo, tx.n)
        /\ txs' = [txs EXCEPT ![t].pc = "committed", ![t].lock = FALSE,
                              ![t].commit = Cometidas + 1]
        /\ UNCHANGED <<stock, movimientos, docs, lastOp, editado, emitidos, otrasTablas>>

\* an exception leaves the enclosing atomic block after the number was assigned (a later
\* line without stock): counter row and document number are rolled back, locks go
TxAbort(t) ==
    /\ txs[t].pc = "guardado"
    /\ txs' = [txs EXCEPT ![t].pc = "aborted", ![t].lock = FALSE, ![t].creado = FALSE]
    /\ UNCHANGED <<stock, movimientos, docs, correlativo, lastOp, editado, emitidos, otrasTablas>>

NextCorr ==
    \/ \E tipo \in TiposCorr : TxBegin(tipo)
    \/ \E t \in 1..Len(txs) : CorrGet(t)
    \/ \E t \in 1..Len(txs) : CorrInsert(t)
    \/ \E t \in 1..Len(txs) : CorrIncrementar(t)
    \/ \E t \in 1..Len(txs) : CorrGuardarNumero(t)
    \/ \E t \in 1..Len(txs) : TxCommit(t)
    \/ \E t \in 1..Len(txs) : TxAbort(t)

SpecCorr == Init /\ [][NextCorr]_vars

----------------------------------------------------------------------------
(* Requests on documents running concurrently.  Each entry of enCurso is one call in
   flight: paso is the statement it executes next, bloquea the document row it holds
   locked (0: none), visto the row as the call loaded it.  A row lock taken by
   select_for_update is held until the transaction of the call ends *)

FilaDocLibre_Siempre(d) == TRUE

\* select_for_update().get(pk=d) can proceed: no transaction in flight holds the row
FilaDocLibre(d) == \A k \in 1..Len(enCurso) : enCurso[k].bloquea # d

noDocs == <<stock, movimientos, correlativo, editado, txs, emitidos,
            sedes, productos, liquidaciones, logs>>

noTablas == <<editado, txs, emitidos, sedes, productos, liquidaciones, logs>>

\* a call of operation op by user u on document d starts; espero: the row is locked
\* by another call at that moment
Llamar(op, u, d, paso) ==
    /\ Len(enCurso) < MaxEnCurso
    /\ enCurso' = Append(enCurso, [op |-> op, user |-> u, doc |-> d, paso |-> paso,
                                   bloquea |-> 0, espero |-> ~FilaDocLibre(d),
                                   visto |-> docs[d]])
    /\ lastOp' = [op |-> "llamar", llamada |-> op, doc |-> d]
    /\ UNCHANGED <<docs, noDocs>>

----------------------------------------------------------------------------
(* Specification of req_to_sal under concurrent calls: a REQ is drafted and sent, and
   warehouse users convert it at the same time *)

\* req_to_sal, lines 50-58: the call starts
RtsLlamar(u, d) == Llamar("req_to_sal", u, d, "get")

\* req_to_sal, lines 60-81: the REQ row is locked and loaded, then validated; a failed
\* validation raises and ends the call
RtsGet(k) ==
    LET c == enCurso[k]
        req == docs[c.doc]
        causa == IF Rol(c.user) \notin {"ALMACEN", "JEFA"} THEN "rol"
                 ELSE IF req.tipo # "REQ" THEN "tipo"
                 ELSE IF req.estado # "REQ_PENDIENTE" THEN "estado"
                 ELSE IF Len(req.items) = 0 THEN "sin_items"
                 ELSE IF Rol(c.user) # "JEFA" /\ req.sede # SedeOperativa(c.user) THEN "sede"
                 ELSE ""
    IN  /\ c.op = "req_to_sal"
        /\ c.paso = "get"
        /\ FilaDocLibre(c.doc)
        /\ enCurso' = IF causa = ""
                      THEN [enCurso EXCEPT ![k].paso = "buscar", ![k].bloquea = c.doc,
                                           ![k].visto = req]
                      ELSE Quitar(enCurso, k)
        /\ lastOp' = [op |-> "rts_get", ok |-> causa = "", causa |-> causa, doc |-> c.doc,
                      espero |-> c.espero]
        /\ UNCHANGED <<docs, noDocs>>

\* req_to_sal, lines 83-94: a draft SAL made from the REQ is returned, which ends the call
RtsBuscar(k) ==
    LET c == enCurso[k]
        hay == SalExistente(DB, c.doc) # {}
    IN  /\ c.op = "req_to_sal"
        /\ c.paso = "buscar"
        /\ enCurso' = IF hay THEN Quitar(enCurso, k) ELSE [enCurso EXCEPT ![k].paso = "crear"]
        /\ lastOp' = [op |-> "rts_buscar", ok |-> TRUE, hay |-> hay, doc |-> c.doc]
        /\ UNCHANGED <<docs, noDocs>>

\* req_to_sal, lines 96-109: the SAL is generated from the loaded REQ, the REQ is saved
\* as REQ_ATENDIDO, and the transaction commits
RtsCrear(k) ==
    LET c == enCurso[k]
    IN  /\ c.op = "req_to_sal"
        /\ c.paso = "crear"
        /\ Len(docs) < MaxDocs
        /\ docs' = [Append(docs, SalDesdeReq(c.visto, c.doc, c.user, SedeOperativa(c.user)))
                      EXCEPT ![c.doc].estado = "REQ_ATENDIDO"]
        /\ enCurso' = Quitar(enCurso, k)
        /\ lastOp' = [op |-> "rts_crear", ok |-> TRUE, doc |-> c.doc, sal |-> Len(docs) + 1]
        /\ UNCHANGED noDocs

\* the users who call req_to_sal
Convertidores == {"alm_hyo", "jefa"}

NextConversion ==
    \/ \E u \in Solicitantes : GetOrCreateReqBorrador(u)
    \/ \E u \in Solicitantes, d \in Reqs : AddItemToReq(u, d, "P1", 1)
    \/ \E d \in Reqs : EnviarReq(d)
    \/ \E u \in Convertidores, d \in Reqs : RtsLlamar(u, d)
    \/ \E k \in 1..Len(enCurso) : RtsGet(k)
    \/ \E k \in 1..Len(enCurso) : RtsBuscar(k)
    \/ \E k \in 1..Len(enCurso) : RtsCrear(k)

SpecConversion == Init /\ [][NextConversion]_vars

----------------------------------------------------------------------------
(* Specification of aplicar under concurrent transactions.  Each entry of enCurso is
   one transaction that saves a movement row and applies it; stock and movimientos are
   the committed tables.  Row locks and the unique constraint uq_stock_producto_sede
   behave as in a READ COMMITTED database that implements SELECT ... FOR UPDATE *)

FilaStockLibre_Siempre(k, p, s) == TRUE

\* no other transaction in flight holds the lock of the Stock row of (p, s)
FilaStockLibre(k, p, s) ==
    \A o \in 1..Len(enCurso) :
        o = k \/ ~(enCurso[o].lock /\ enCurso[o].producto = p /\ enCurso[o].sede = s)

\* another transaction in flight works on the pair (p, s)
OtraEnElPar(p, s) ==
    \E o \in 1..Len(enCurso) : enCurso[o].producto = p /\ enCurso[o].sede = s

noStock == <<docs, correlativo, editado, txs, emitidos, sedes, productos,
             liquidaciones, logs>>

\* MovimientoInventario.objects.create(...) in an atomic block, then mov.aplicar():
\* the transaction starts
ApLlamar(p, s, tipo, qty) ==
    /\ Len(enCurso) < MaxEnCurso
    /\ Len(movimientos) + Len(enCurso) < MaxAplicados
    /\ enCurso' = Append(enCurso, [producto |-> p, sede |-> s, tipo |-> tipo, qty |-> qty,
                                   paso |-> "get", lock |-> FALSE, creado |-> FALSE,
                                   leido |-> 0, solapa |-> OtraEnElPar(p, s),
                                   alInicio |-> Cantidad(stock, p, s)])
    /\ lastOp' = [op |-> "ap_llamar"]
    /\ UNCHANGED <<stock, movimientos, noStock>>

\* aplicar, get_or_create: self.get(producto, sede) FOR UPDATE waits for the row lock,
\* takes it and reads the committed row; DoesNotExist leads to the insert
ApGet(k) ==
    LET c == enCurso[k]
    IN  /\ c.paso = "get"
        /\ IF ExisteStock(stock, c.producto, c.sede)
           THEN /\ FilaStockLibre(k, c.producto, c.sede)
                /\ enCurso' = [enCurso EXCEPT ![k].paso = "guardar", ![k].lock = TRUE,
                                              ![k].leido = stock[<<c.producto, c.sede>>]]
           ELSE enCurso' = [enCurso EXCEPT ![k].paso = "insert"]
        /\ lastOp' = [op |-> "ap_get"]
        /\ UNCHANGED <<stock, movimientos, noStock>>

\* aplicar, get_or_create: self.create(cantidad=0) in a savepoint; the unique constraint
\* makes the insert wait for an uncommitted insert of the pair, and raise IntegrityError
\* (caught, then retried as a get) when the row has been committed meanwhile
ApInsert(k) ==
    LET c == enCurso[k]
    IN  /\ c.paso = "insert"
        /\ IF ExisteStock(stock, c.producto, c.sede)
           THEN enCurso' = [enCurso EXCEPT ![k].paso = "get"]
           ELSE /\ ~\E o \in 1..Len(enCurso) :
                      /\ o # k
                      /\ enCurso[o].creado
                      /\ enCurso[o].producto = c.producto
                      /\ enCurso[o].sede = c.sede
                /\ enCurso' = [enCurso EXCEPT ![k].paso = "guardar", ![k].lock = TRUE,
                                              ![k].creado = TRUE, ![k].leido = 0]
        /\ lastOp' = [op |-> "ap_insert"]
        /\ UNCHANGED <<stock, movimientos, noStock>>

\* aplicar, lines 307-320: the new quantity is computed from the row as read; a
\* negative one raises and the transaction is rolled back, otherwise stock.save() and
\* commit, which makes the movement row and the Stock row visible and frees the lock
ApGuardar(k) ==
    LET c == enCurso[k]
        nueva == NuevaCantidad(c.leido, c.tipo, c.qty)
        ok == ~StockInsuficiente(nueva)
    IN  /\ c.paso = "guardar"
        /\ nueva <= MaxStock
        /\ stock' = IF ok THEN PonerStock(stock, c.producto, c.sede, nueva) ELSE stock
        /\ movimientos' = IF ok
                          THEN Append(movimientos, NuevoMovimiento(c.producto, c.sede, c.tipo,
                                                                   c.qty, SinCosto, SinReferencia))
                          ELSE movimientos
        /\ enCurso' = Quitar(enCurso, k)
        /\ lastOp' = [op |-> "ap_guardar", ok |-> ok, tipo |-> c.tipo, qty |-> c.qty,
                      solapa |-> c.solapa, alInicio |-> c.alInicio, leido |-> c.leido]
        /\ UNCHANGED noStock

\* the quantities of the concurrent applies: one unit and the largest quantity
QtysAplicar == {1, MaxQty}

NextAplicar ==
    \/ \E r \in ParesLedger, t \in {"IN", "OUT"}, q \in QtysAplicar : ApLlamar(r[1], r[2], t, q)
    \/ \E k \in 1..Len(enCurso) : ApGet(k)
    \/ \E k \in 1..Len(enCurso) : ApInsert(k)
    \/ \E k \in 1..Len(enCurso) : ApGuardar(k)

SpecAplicar == Init /\ [][NextAplicar]_vars

----------------------------------------------------------------------------
(* Specification of concurrent req_enviar requests.  The view loads its own copy of the
   REQ without a lock; enviar_req then works on that copy *)

\* req_enviar, lines 868-900: the copy is loaded and the caller must own the REQ
EnvLlamar(u, d) ==
    /\ docs[d].tipo = "REQ"
    /\ docs[d].responsable = u
    /\ Llamar("req_enviar", u, d, "enviar")

\* another call in flight has incremented the Correlativo row of REQ and holds its lock
CorrReqBloqueado(k) ==
    \E o \in 1..Len(enCurso) :
        o # k /\ enCurso[o].op = "req_enviar" /\ enCurso[o].paso = "guardar"
              /\ enCurso[o].bloquea # 0

\* enviar_req, lines 591-601: tipo and estado of the copy, items.exists() on the table,
\* full_clean, then asignar_numero_si_falta on the copy: a copy that has a numero keeps
\* it, otherwise the Correlativo row is locked and incremented and the numero is saved
\* on the document row, which stays locked until commit
EnvNumero(k) ==
    LET c == enCurso[k]
        ok == /\ c.visto.tipo = "REQ"
              /\ c.visto.estado = "REQ_BORRADOR"
              /\ Len(docs[c.doc].items) > 0
              /\ CleanOk(c.visto)
        falta == c.visto.numero = SinNumero
        n == UltimoNumero(correlativo, "REQ") + 1
    IN  /\ c.op = "req_enviar"
        /\ c.paso = "enviar"
        /\ (ok /\ falta) => (~CorrReqBloqueado(k) /\ FilaDocLibre(c.doc))
        /\ enCurso' = IF ~ok THEN Quitar(enCurso, k)
                      ELSE IF falta
                      THEN [enCurso EXCEPT ![k].paso = "guardar", ![k].bloquea = c.doc,
                                           ![k].visto.numero = FormatearNumero("REQ", n)]
                      ELSE [enCurso EXCEPT ![k].paso = "guardar"]
        /\ lastOp' = [op |-> "env_numero", ok |-> ok, doc |-> c.doc]
        /\ UNCHANGED <<docs, noDocs>>

\* enviar_req, lines 602-603, and the end of the atomic block: estado and the numero of
\* the copy are written to the row, the incremented counter becomes visible
EnvGuardar(k) ==
    LET c == enCurso[k]
        tomo == c.bloquea # 0
        n == UltimoNumero(correlativo, "REQ") + 1
    IN  /\ c.op = "req_enviar"
        /\ c.paso = "guardar"
        /\ \A o \in 1..Len(enCurso) : o = k \/ enCurso[o].bloquea # c.doc
        /\ docs' = [docs EXCEPT ![c.doc].estado = "REQ_PENDIENTE",
                                ![c.doc].numero = c.visto.numero]
        /\ correlativo' = IF tomo THEN PonerCorrelativo(correlativo, "REQ", n)
                          ELSE correlativo
        /\ enCurso' = Quitar(enCurso, k)
        /\ lastOp' = [op |-> "env_guardar", ok |-> TRUE, doc |-> c.doc,
                      numeroAntes |-> docs[c.doc].numero, numero |-> c.visto.numero,
                      espero |-> c.espero]
        /\ UNCHANGED <<stock, movimientos, noTablas>>

Remitentes == {"tec_hyo", "jefa"}

NextEnviar ==
    \/ \E u \in Remitentes : GetOrCreateReqBorrador(u)
    \/ \E u \in Remitentes, d \in 1..Len(docs) : AddItemToReq(u, d, "P1", 1)
    \/ \E u \in Remitentes, d \in 1..Len(docs) : EnvLlamar(u, d)
    \/ \E k \in 1..Len(enCurso) : EnvNumero(k)
    \/ \E k \in 1..Len(enCurso) : EnvGuardar(k)

SpecEnviar == Init /\ [][NextEnviar]_vars

----------------------------------------------------------------------------
(* Specification of the line requests of the requisition cart next to a send.  A view
   obtains the draft REQ of the user in one transaction and hands that object to the
   service, which runs in a transaction of its own *)

ServiciosLinea == {"add_item_to_req", "set_item_qty", "remove_item_from_req"}

SinLinea(items, p) ==
    LET Otra(it) == it.producto # p
    IN  SelectSeq(items, Otra)

\* req_add_producto, req_set_qty, req_remove_producto up to the service call:
\* req = get_or_create_req_borrador(user=u); each user starts one requisition
VistaLinea(u, op) ==
    LET existe == ReqBorradorDe(u) # {}
        j == IF existe THEN CHOOSE j \in ReqBorradorDe(u) : TRUE ELSE Len(docs) + 1
        docs2 == IF existe THEN [docs EXCEPT ![j] = NormalizarReqBorradorPorRol(@, u)]
                 ELSE Append(docs, NuevoReq(u))
    IN  /\ Len(enCurso) < MaxEnCurso
        /\ ~existe => /\ Len(docs) < MaxDocs
                      /\ ~\E i \in 1..Len(docs) : docs[i].tipo = "REQ" /\ docs[i].responsable = u
        /\ docs' = docs2
        /\ enCurso' = Append(enCurso, [op |-> op, user |-> u, doc |-> j, paso |-> "servicio",
                                       bloquea |-> 0, espero |-> FALSE, visto |-> docs2[j]])
        /\ lastOp' = [op |-> "llamar", llamada |-> op, doc |-> j]
        /\ UNCHANGED noDocs

\* add_item_to_req, set_item_qty, remove_item_from_req with the object of the view:
\* role, tipo, estado and responsable are those of the object, the lines are those of
\* the table
ServicioLinea(k, p, cant) ==
    LET c == enCurso[k]
        items == docs[c.doc].items
        i == LineaDe(items, p)
        permitido == /\ Rol(c.user) \in {"SOLICITANTE", "JEFA"}
                     /\ c.visto.tipo = "REQ"
                     /\ c.visto.estado = "REQ_BORRADOR"
                     /\ c.visto.responsable = c.user
        ok == /\ permitido
              /\ c.op # "remove_item_from_req" => (cant > 0 /\ cant <= MAX_QTY)
              /\ c.op = "set_item_qty" => i # 0
        nuevos == IF ~ok THEN items
                  ELSE IF c.op = "remove_item_from_req" THEN SinLinea(items, p)
                  ELSE IF c.op = "set_item_qty" THEN [items EXCEPT ![i].cantidad = cant]
                  ELSE IF i = 0 THEN Append(items, NuevoItem(p, cant, CostoProducto(p)))
                  ELSE [items EXCEPT ![i].cantidad = @ + cant]
    IN  /\ c.op \in ServiciosLinea
        /\ c.paso = "servicio"
        /\ (c.op = "add_item_to_req" /\ i # 0) => items[i].cantidad + cant <= MaxQty
        /\ docs' = [docs EXCEPT ![c.doc].items = nuevos]
        /\ enCurso' = Quitar(enCurso, k)
        /\ lastOp' = [op |-> c.op, ok |-> ok, doc |-> c.doc, cambio |-> nuevos # items,
                      estadoFila |-> docs[c.doc].estado]
        /\ UNCHANGED noDocs

NextLineas ==
    \/ \E u \in Solicitantes, op \in ServiciosLinea : VistaLinea(u, op)
    \/ \E k \in 1..Len(enCurso), p \in Productos : ServicioLinea(k, p, 1)
    \/ \E d \in 1..Len(docs) : EnviarReq(d)

SpecLineas == Init /\ [][NextLineas]_vars

----------------------------------------------------------------------------
(* Specification of concurrent sal_confirmar requests.  The view runs in one
   transaction: it loads the SAL row FOR UPDATE and confirms the object it loaded *)

\* <<tipo, sede, sede_destino, lines>>: an ING that brings stock in and SAL that take
\* less than it out
PlantillasSalida ==
    {<<"ING", "JAUJA", None, <<NuevoItem("P1", MaxQty, SinCosto)>> >>,
     <<"SAL", "JAUJA", None, <<NuevoItem("P1", 1, SinCosto)>> >>}

\* the templates of which no document has been created yet
PlantillasSalidaNuevas ==
    {t \in PlantillasSalida :
        ~\E j \in 1..Len(docs) :
            docs[j].origen = 0 /\ docs[j].tipo = t[1] /\ docs[j].sede_destino = t[3]}

\* POST /sal/<d>/confirmar/ by user u
ScLlamar(u, d) ==
    /\ docs[d].tipo = "SAL"
    /\ Llamar("sal_confirmar", u, d, "get")

\* sal_confirmar, lines 85-99: roles, the locking get of the SAL row, the sede of an
\* ALMACEN user, and the return for a SAL that is already confirmed
ScGet(k) ==
    LET c == enCurso[k]
        sal == docs[c.doc]
        causa == IF Rol(c.user) \notin {"ALMACEN", "JEFA"} THEN "rol"
                 ELSE IF Rol(c.user) # "JEFA" /\ sal.sede # SedeOperativa(c.user) THEN "sede"
                 ELSE IF sal.estado = "CONFIRMADO" THEN "ya_confirmada"
                 ELSE ""
    IN  /\ c.op = "sal_confirmar"
        /\ c.paso = "get"
        /\ Rol(c.user) \in {"ALMACEN", "JEFA"} => FilaDocLibre(c.doc)
        /\ enCurso' = IF causa = ""
                      THEN [enCurso EXCEPT ![k].paso = "confirmar", ![k].bloquea = c.doc,
                                           ![k].visto = sal]
                      ELSE Quitar(enCurso, k)
        /\ lastOp' = [op |-> "sc_get", ok |-> causa = "", causa |-> causa, doc |-> c.doc,
                      espero |-> c.espero]
        /\ UNCHANGED <<docs, noDocs>>

\* sal_confirmar, lines 101-111: sal.confirmar(entregado_por=request.user) on the loaded
\* object, then the view returns and its transaction commits; a ValidationError of
\* confirmar rolls its block back and is turned into a message
ScConfirmar(k) ==
    LET c == enCurso[k]
        res == Confirmar([DB EXCEPT !.docs[c.doc] = c.visto], c.doc, c.user, PrimerInstante)
    IN  /\ c.op = "sal_confirmar"
        /\ c.paso = "confirmar"
        /\ DentroDeCotas(res.db)
        /\ Escribir(IF res.ok THEN res.db ELSE DB)
        /\ enCurso' = Quitar(enCurso, k)
        /\ lastOp' = [op |-> "sc_confirmar", ok |-> res.ok, causa |-> res.causa,
                      doc |-> c.doc, antes |-> DB, espero |-> c.espero]
        /\ UNCHANGED noTablas

\* a warehouse user of the sede of the SAL and one of another sede
Confirmadores == {"alm_jauja", "alm_hyo"}

NextSalConfirmar ==
    \/ \E t \in PlantillasSalidaNuevas : CrearDocumento(t[1], t[2], t[3], t[4])
    \/ \E d \in 1..Len(docs) : docs[d].tipo = "ING" /\ ConfirmarDoc(d, None, PrimerInstante)
    \/ \E u \in Confirmadores, d \in 1..Len(docs) : ScLlamar(u, d)
    \/ \E k \in 1..Len(enCurso) : ScGet(k)
    \/ \E k \in 1..Len(enCurso) : ScConfirmar(k)

SpecSalConfirmar == Init /\ [][NextSalConfirmar]_vars

----------------------------------------------------------------------------
(* Specification of confirmar as a transaction of several statements, run concurrently
   on different documents.  A transaction holds the lock of the Correlativo row of its
   tipo and of every Stock row it has applied a line to until it ends; its writes are
   in its entry of enCurso until the commit.  The database aborts one transaction of a
   cycle of lock waits *)

\* <<tipo, sede, sede_destino, lines>>: the SAL names the products of the ING and of
\* the MER in the opposite order
PlantillasBloqueo ==
    {<<"ING", "JAUJA", None, <<NuevoItem("P1", 1, SinCosto), NuevoItem("P2", 1, SinCosto)>> >>,
     <<"SAL", "JAUJA", None, <<NuevoItem("P2", 1, SinCosto), NuevoItem("P1", 1, SinCosto)>> >>,
     <<"MER", "JAUJA", None, <<NuevoItem("P1", 1, SinCosto), NuevoItem("P2", 1, SinCosto)>> >>}

\* the templates of which no document has been created yet
PlantillasBloqueoNuevas ==
    {t \in PlantillasBloqueo : ~\E j \in 1..Len(docs) : docs[j].tipo = t[1]}

\* a confirmar call on document d is in flight
EnVuelo(d) == \E k \in 1..Len(enCurso) : enCurso[k].doc = d

\* confirmar, lines 621-629, on a freshly loaded document: the raises before any lock
CfLlamar(d) ==
    LET doc == docs[d]
        ok == doc.tipo # "REQ" /\ doc.estado = "BORRADOR" /\ Len(doc.items) > 0
    IN  /\ ~EnVuelo(d)
        /\ Len(enCurso) < MaxEnCurso
        /\ enCurso' = IF ok
                      THEN Append(enCurso, [doc |-> d, visto |-> doc, paso |-> "numero",
                                            linea |-> 1, corr |-> FALSE, tiene |-> {},
                                            pend |-> <<>>, movs |-> <<>>])
                      ELSE enCurso
        /\ lastOp' = [op |-> "cf_llamar", ok |-> ok, doc |-> d]
        /\ UNCHANGED <<docs, noDocs>>

\* the Stock row the call asks for next, None when it asks for none
Pide(k) ==
    LET c == enCurso[k]
    IN  IF c.paso = "linea" THEN <<c.visto.items[c.linea].producto, c.visto.sede>> ELSE None

\* the call that holds the lock call k waits for, 0 when k does not wait
Tenedor(k) ==
    LET c == enCurso[k]
        Tiene(o) == /\ o # k
                    /\ \/ c.paso = "linea" /\ Pide(k) \in enCurso[o].tiene
                       \/ /\ c.paso = "numero"
                          /\ enCurso[o].corr
                          /\ enCurso[o].visto.tipo = c.visto.tipo
    IN  IF \E o \in 1..Len(enCurso) : Tiene(o)
        THEN CHOOSE o \in 1..Len(enCurso) : Tiene(o)
        ELSE 0

\* asignar_numero_si_falta, lines 582-586: the Correlativo row of the tipo is locked
\* and incremented, the numero is set on the object and saved
CfNumero(k) ==
    LET c == enCurso[k]
        n == UltimoNumero(correlativo, c.visto.tipo) + 1
    IN  /\ c.paso = "numero"
        /\ Tenedor(k) = 0
        /\ enCurso' = [enCurso EXCEPT ![k].paso = "linea", ![k].corr = TRUE,
                                      ![k].visto.numero = FormatearNumero(c.visto.tipo, n)]
        /\ lastOp' = [op |-> "cf_numero", ok |-> TRUE, doc |-> c.doc]
        /\ UNCHANGED <<docs, noDocs>>

\* confirmar, lines 633-653, one turn of the loop: the movement row is created and
\* applied; aplicar locks the Stock row of the line (created when missing) and raises
\* on a negative quantity, which rolls the transaction back
CfLinea(k) ==
    LET c == enCurso[k]
        it == c.visto.items[c.linea]
        tipo == MovTipoDe(c.visto.tipo)
        nueva == NuevaCantidad(Cantidad(stock, it.producto, c.visto.sede), tipo, it.cantidad)
        mov == NuevoMovimiento(it.producto, c.visto.sede, tipo, it.cantidad,
                               it.costo_unitario, c.visto.numero)
    IN  /\ c.paso = "linea"
        /\ Tenedor(k) = 0
        /\ enCurso' = IF StockInsuficiente(nueva) THEN Quitar(enCurso, k)
                      ELSE [enCurso EXCEPT
                              ![k].tiene = @ \cup {Pide(k)},
                              ![k].pend = Append(@, <<it.producto, c.visto.sede, nueva>>),
                              ![k].movs = Append(@, mov),
                              ![k].linea = @ + 1,
                              ![k].paso = IF c.linea = Len(c.visto.items)
                                          THEN "commit" ELSE "linea"]
        /\ lastOp' = [op |-> "cf_linea", ok |-> ~StockInsuficiente(nueva), doc |-> c.doc]
        /\ UNCHANGED <<docs, noDocs>>

\* the Stock rows written by a transaction, saved in turn
RECURSIVE GuardarPend(_, _, _)
GuardarPend(st, pend, i) ==
    IF i > Len(pend) THEN st
    ELSE GuardarPend(PonerStock(st, pend[i][1], pend[i][2], pend[i][3]), pend, i + 1)

\* confirmar, lines 655-703, and the end of the atomic block: estado CONFIRMADO, the
\* cascades, then the writes of the transaction become visible and its locks go
CfCommit(k) ==
    LET c == enCurso[k]
        tipo == c.visto.tipo
        db3 == [DB EXCEPT !.stock = GuardarPend(@, c.pend, 1),
                          !.movimientos = @ \o c.movs,
                          !.correlativo = PonerCorrelativo(@, tipo, UltimoNumero(@, tipo) + 1),
                          !.docs[c.doc].numero = c.visto.numero,
                          !.docs[c.doc].estado = "CONFIRMADO"]
        db4 == CascadaReqAtendido(db3, c.doc)
        r5 == CascadaTransferencia(db4, c.doc)
    IN  /\ c.paso = "commit"
        /\ Escribir(IF r5.ok THEN CascadaRecibido(r5.db, c.doc, PrimerInstante) ELSE DB)
        /\ enCurso' = Quitar(enCurso, k)
        /\ lastOp' = [op |-> "cf_commit", ok |-> r5.ok, doc |-> c.doc]
        /\ UNCHANGED noTablas

\* following the holders from call j for at most n waits leads back to call k
RECURSIVE Vuelve(_, _, _)
Vuelve(k, j, n) ==
    IF n = 0 \/ j = 0 THEN FALSE
    ELSE IF Tenedor(j) = k THEN TRUE
    ELSE Vuelve(k, Tenedor(j), n - 1)

HayCiclo_Nunca(k) == FALSE

\* call k is in a cycle of calls that wait for each other's row locks
HayCiclo(k) == Vuelve(k, k, Len(enCurso))

\* the wait for the row lock in select_for_update ends with the error of the database
\* for a transaction of a cycle of waits; the transaction is rolled back
DbDeadlock(k) ==
    /\ HayCiclo(k)
    /\ enCurso' = Quitar(enCurso, k)
    /\ lastOp' = [op |-> "cf_deadlock", ok |-> FALSE, doc |-> enCurso[k].doc]
    /\ UNCHANGED <<docs, noDocs>>

\* a step of the confirmar call on document d
CfPaso(d) ==
    \E k \in 1..Len(enCurso) :
        enCurso[k].doc = d /\ (CfNumero(k) \/ CfLinea(k) \/ CfCommit(k))

NextBloqueos ==
    \/ \E t \in PlantillasBloqueoNuevas : CrearDocumento(t[1], t[2], t[3], t[4])
    \/ \E d \in 1..Len(docs) : CfLlamar(d)
    \/ \E d \in 1..Len(docs) : CfPaso(d)
    \/ \E k \in 1..Len(enCurso) : DbDeadlock(k)

SpecBloqueos == Init /\ [][NextBloqueos]_vars

\* a request thread runs its statements, a statement that waits for a row lock gets it
\* once it is free for it (the lock queue of the row), and the database keeps looking
\* for cycles of waits
SpecBloqueosJusta ==
    /\ SpecBloqueos
    /\ \A d \in 1..MaxDocs : SF_vars(CfPaso(d))
    /\ WF_vars(\E k \in 1..Len(enCurso) : DbDeadlock(k))

----------------------------------------------------------------------------
(* Specification of confirmar called on document objects that stay in memory: an entry
   of enCurso is an object loaded from its row, visto holds its attributes *)

\* doc = DocumentoInventario.objects.get(pk=d)
ObjCargar(d) == Llamar("confirmar", None, d, "memoria")

\* doc.confirmar() on the object: the checks and asignar_numero_si_falta read the
\* attributes of the object, the lines are those of the table; numero is written to
\* the row by asignar_numero_si_falta only (line 586), the final save writes estado and
\* entregado_por (line 659); after a raise the row is rolled back and the object keeps
\* the attributes set up to the raise
ObjConfirmar(k) ==
    LET c == enCurso[k]
        d == c.doc
        obj == [c.visto EXCEPT !.items = docs[d].items]
        res == Confirmar([DB EXCEPT !.docs[d] = obj], d, None, PrimerInstante)
        fila == [docs[d] EXCEPT
                   !.estado = res.db.docs[d].estado,
                   !.entregado_por = res.db.docs[d].entregado_por,
                   !.numero = IF obj.numero = SinNumero THEN res.db.docs[d].numero ELSE @]
        db == IF res.ok THEN [res.db EXCEPT !.docs[d] = fila] ELSE DB
    IN  /\ c.op = "confirmar"
        /\ c.paso = "memoria"
        /\ DentroDeCotas(db)
        /\ Escribir(db)
        /\ enCurso' = [enCurso EXCEPT ![k].visto =
                          IF res.ok THEN res.db.docs[d] ELSE res.sucio.docs[d]]
        /\ lastOp' = [op |-> "obj_confirmar", ok |-> res.ok, causa |-> res.causa, doc |-> d,
                      base |-> Len(movimientos), numeroObjeto |-> obj.numero]
        /\ UNCHANGED noTablas

\* the object goes out of scope
ObjSoltar(k) ==
    /\ enCurso[k].op = "confirmar"
    /\ enCurso' = Quitar(enCurso, k)
    /\ lastOp' = [op |-> "obj_soltar"]
    /\ UNCHANGED <<docs, noDocs>>

NextReintento ==
    \/ \E t \in PlantillasSalidaNuevas : CrearDocumento(t[1], t[2], t[3], t[4])
    \/ \E d \in 1..Len(docs) : ObjCargar(d)
    \/ \E k \in 1..Len(enCurso) : ObjConfirmar(k)
    \/ \E k \in 1..Len(enCurso) : ObjSoltar(k)

SpecReintento == Init /\ [][NextReintento]_vars

----------------------------------------------------------------------------
(* Specification of the quantities of the lines of a draft REQ, with the posted
   quantities at and around the limit of 9999 *)

\* the posted quantities
CantidadesLinea == {0, MAX_QTY, MAX_QTY + 1}

\* the largest quantity of a line in the model
TopeLinea == 2 * MAX_QTY

NextCantidades ==
    \/ \E u \in Solicitantes : GetOrCreateReqBorrador(u)
    \/ \E u \in Solicitantes, d \in Reqs, p \in Productos, c \in CantidadesLinea :
          /\ CantidadDeLinea(docs[d].items, p) + c <= TopeLinea
          /\ AddItemToReqSinCota(u, d, p, c)
    \/ \E u \in Solicitantes, d \in Reqs, p \in Productos, c \in CantidadesLinea \cup {1} :
          SetItemQty(u, d, p, c)

SpecCantidades == Init /\ [][NextCantidades]_vars

----------------------------------------------------------------------------
(* Specification of the kind of a requisition: besides the cart and the send, the
   warehouse dashboard posts the kind of a REQ *)

\* req_set_tipo_doc(request of user u, req_id = d) with the posted tipo_requerimiento
\* and sede_destino_id (None when not posted)
ReqSetTipoDoc(u, d, tipo, destino) ==
    LET req == docs[d]
        ok == /\ Rol(u) \in {"ALMACEN", "JEFA", "ADMIN"}
              /\ SedeOperativa(u) # None
              /\ tipo \in {"PROVEEDOR", "ENTRE_SEDES"}
              /\ tipo = "PROVEEDOR" => SedeTipo(SedeOperativa(u)) = "CENTRAL"
              /\ tipo = "ENTRE_SEDES" => (destino # None /\ SedeTipo(destino) = "CENTRAL")
        nuevo == IF ~ok THEN req
                 ELSE IF tipo = "PROVEEDOR"
                 THEN [req EXCEPT !.tipo_requerimiento = "PROVEEDOR", !.sede_destino = None]
                 ELSE [req EXCEPT !.tipo_requerimiento = "ENTRE_SEDES",
                                  !.sede_destino = destino, !.proveedor = FALSE]
    IN  /\ req.tipo = "REQ"
        /\ docs' = [docs EXCEPT ![d] = nuevo]
        /\ lastOp' = [op |-> "req_set_tipo_doc", ok |-> ok, doc |-> d,
                      cambio |-> nuevo # req, estadoAntes |-> req.estado]
        /\ UNCHANGED <<stock, movimientos, correlativo, editado, txs, emitidos, otrasTablas>>

NextTipoDoc ==
    \/ \E u \in Remitentes : GetOrCreateReqBorrador(u)
    \/ \E u \in Remitentes, d \in Reqs : AddItemToReq(u, d, "P1", 1)
    \/ \E d \in Reqs : EnviarReq(d)
    \/ \E u \in Usuarios, d \in Reqs, t \in TiposReq, dst \in Sedes \cup {None} :
          ReqSetTipoDoc(u, d, t, dst)

SpecTipoDoc == Init /\ [][NextTipoDoc]_vars

----------------------------------------------------------------------------
(* Properties of the stock ledger *)

\* the signed change of Stock.cantidad a movement of this kind stands for
Delta(tipo, qty) == IF tipo = "OUT" THEN 0 - qty ELSE qty

\* the Stock row of the pair of the last aplicar call is as it was before the call
FilaComoAntes ==
    /\ (<<lastOp.producto, lastOp.sede>> \in DOMAIN stock) = lastOp.existia
    /\ lastOp.existia => stock[<<lastOp.producto, lastOp.sede>>] = lastOp.antes

\* C1: after any sequence of successful and failed aplicar calls every Stock.cantidad
\* is >= 0, and a movement whose result would be negative raises and leaves the
\* Stock row of its pair as it was.
C1_StockNoNegativo ==
    /\ \A r \in DOMAIN stock : stock[r] >= 0
    /\ (lastOp.op = "aplicar" /\ lastOp.antes + Delta(lastOp.tipo, lastOp.qty) < 0)
          => (~lastOp.ok /\ FilaComoAntes)

\* C1 witness: an OUT or a negative ADJ was rejected against a row holding stock
C1_Witness ==
    /\ lastOp.op = "aplicar"
    /\ ~lastOp.ok
    /\ lastOp.tipo \in {"OUT", "ADJ"}
    /\ lastOp.existia
    /\ lastOp.antes > 0

\* sum of the signed quantities of the saved movement rows of one pair
RECURSIVE Replay(_, _, _)
Replay(movs, p, s) ==
    IF movs = <<>> THEN 0
    ELSE LET m == movs[Len(movs)]
             resto == Replay(SubSeq(movs, 1, Len(movs) - 1), p, s)
         IN  IF m.producto = p /\ m.sede = s THEN resto + Delta(m.tipo, m.qty) ELSE resto

\* C2 (as claimed): replaying the saved movement rows of every pair from 0 gives the
\* current Stock.cantidad of the pair.
C2_ReplayIgualStock ==
    \A p \in Productos, s \in Sedes :
        Replay(movimientos, p, s) = (IF <<p, s>> \in DOMAIN stock THEN stock[<<p, s>>] ELSE 0)

\* C8 (as claimed): after an aplicar rejected by the negative-stock check neither a
\* Stock change nor the row of the rejected movement is persisted.
C8_TodoONada ==
    (lastOp.op = "aplicar" /\ ~lastOp.ok)
        => (FilaComoAntes /\ ~(lastOp.mov \in 1..Len(movimientos)))

\* C9 (as claimed): every applied movement row carries a resulting-balance snapshot
\* equal to the Stock.cantidad of its pair right after it was applied.
C9_SaldoResultante ==
    (lastOp.op = "aplicar" /\ lastOp.ok /\ lastOp.mov \in 1..Len(movimientos))
        => /\ "saldo" \in DOMAIN movimientos[lastOp.mov]
           /\ movimientos[lastOp.mov].saldo = stock[<<lastOp.producto, lastOp.sede>>]

\* C10: a successful aplicar changes the Stock.cantidad of its pair by +qty for IN,
\* -qty for OUT and +qty (signed) for ADJ, counting from 0 when the pair had no row,
\* and the row exists afterwards.
C10_DeltaPorTipo ==
    (lastOp.op = "aplicar" /\ lastOp.ok)
        => /\ <<lastOp.producto, lastOp.sede>> \in DOMAIN stock
           /\ stock[<<lastOp.producto, lastOp.sede>>]
                = (IF lastOp.existia THEN lastOp.antes ELSE 0)
                  + (CASE lastOp.tipo = "IN" -> lastOp.qty
                       [] lastOp.tipo = "OUT" -> 0 - lastOp.qty
                       [] lastOp.tipo = "ADJ" -> lastOp.qty)

\* C10 witness: a negative ADJ succeeded on an existing row, and (elsewhere) an IN
\* created the row of a pair that had none
C10_Witness ==
    /\ lastOp.op = "aplicar"
    /\ lastOp.ok
    /\ lastOp.tipo = "ADJ"
    /\ lastOp.qty < 0
    /\ lastOp.antes = MaxQty
    /\ \E r \in DOMAIN stock : r # <<lastOp.producto, lastOp.sede>> /\ stock[r] > 0

----------------------------------------------------------------------------
(* Properties of the document engine *)

\* C3: when a line of a SAL/ING/MER confirm fails for insufficient stock the confirm
\* fails as a whole: no movement row of the document persists, every Stock row is as
\* before the call, the document stays in BORRADOR, and the number assignment and the
\* counter increment are undone.
C3_ConfirmarTodoONada ==
    (lastOp.op = "confirmar" /\ ~lastOp.ok /\ lastOp.causa = "stock") =>
        /\ movimientos = lastOp.antes.movimientos
        /\ \A i \in 1..Len(movimientos) :
              movimientos[i].referencia # lastOp.numeroSucio
        /\ stock = lastOp.antes.stock
        /\ docs[lastOp.doc].estado = "BORRADOR"
        /\ docs[lastOp.doc].numero = lastOp.antes.docs[lastOp.doc].numero
        /\ correlativo = lastOp.antes.correlativo
        /\ docs = lastOp.antes.docs

\* C3 witness: a confirm failed on its second line, after the number had been assigned
\* and the first line's movement had been created and applied
C3_Witness ==
    /\ lastOp.op = "confirmar"
    /\ ~lastOp.ok
    /\ lastOp.causa = "stock"
    /\ lastOp.movsSucios >= 2
    /\ lastOp.antes.docs[lastOp.doc].numero = SinNumero
    /\ lastOp.numeroSucio # SinNumero
    /\ docs[lastOp.doc].estado = "BORRADOR"

\* the ING documents whose origen is document d
IngsDe(d) == {j \in 1..Len(docs) : docs[j].tipo = "ING" /\ docs[j].origen = d}

\* the (product, quantity, unit cost) lines of a document
Lineas(doc) ==
    [k \in 1..Len(doc.items) |->
        <<doc.items[k].producto, doc.items[k].cantidad, doc.items[k].costo_unitario>>]

\* a confirmed SAL of the CENTRAL sede with a different destination
TransferenciaConfirmada(d) ==
    /\ docs[d].tipo = "SAL"
    /\ docs[d].estado = "CONFIRMADO"
    /\ SedeTipo(docs[d].sede) = "CENTRAL"
    /\ docs[d].sede_destino # None
    /\ docs[d].sede_destino # docs[d].sede

\* C5: a confirmed SAL from CENTRAL to another sede has exactly one ING whose origen is
\* it, at the destination, with the same (product, quantity, unit cost) lines; the ING
\* is in BORRADOR when the confirm returns; further confirm attempts on the SAL leave
\* exactly one such ING.
C5_UnIngPorTransferencia ==
    \A d \in 1..Len(docs) :
        TransferenciaConfirmada(d) =>
            /\ Cardinality(IngsDe(d)) = 1
            /\ \A j \in IngsDe(d) :
                  /\ docs[j].sede = docs[d].sede_destino
                  /\ Lineas(docs[j]) = Lineas(docs[d])
                  /\ (lastOp.op = "confirmar" /\ lastOp.ok /\ lastOp.doc = d) =>
                        /\ docs[j].estado = "BORRADOR"
                        /\ j > Len(lastOp.antes.docs)

\* C5 witness: a further confirm attempt on a confirmed transfer SAL has just returned
C5_Witness ==
    /\ lastOp.op = "confirmar"
    /\ ~lastOp.ok
    /\ TransferenciaConfirmada(lastOp.doc)
    /\ Cardinality(IngsDe(lastOp.doc)) = 1

\* the SAL documents whose origen is document d
SalsDe(d) == {j \in 1..Len(docs) : docs[j].tipo = "SAL" /\ docs[j].origen = d}

\* C6: a REQ is in REQ_PENDIENTE only if at the transition it had at least one line and
\* a number assigned, and a REQ is in REQ_ATENDIDO only if some SAL whose origen is that
\* REQ is in CONFIRMADO.
C6_EstadosDeReq ==
    /\ (lastOp.op = "enviar_req" /\ lastOp.ok) =>
          /\ docs[lastOp.doc].estado = "REQ_PENDIENTE"
          /\ Len(docs[lastOp.doc].items) >= 1
          /\ docs[lastOp.doc].numero # SinNumero
    /\ \A d \in 1..Len(docs) :
          (docs[d].tipo = "REQ" /\ docs[d].estado = "REQ_ATENDIDO") =>
              \E j \in SalsDe(d) : docs[j].estado = "CONFIRMADO"

\* C7: req_to_sal called twice in sequence on the same sent REQ, with no confirm in
\* between, returns the same BORRADOR SAL both times and leaves exactly one SAL whose
\* origen is that REQ.
C7_ReqToSalIdempotente ==
    (lastOp.op = "req_to_sal" /\ lastOp.segunda) =>
        /\ lastOp.ok
        /\ lastOp.sal = lastOp.salPrevia
        /\ docs[lastOp.sal].estado = "BORRADOR"
        /\ Cardinality(SalsDe(lastOp.doc)) = 1

\* C4 (as stated): for each document type no two calls that obtain a number from the
\* counter ever receive the same value, under any interleaving and also when the
\* counter row does not exist yet; committed numbers of one type are strictly
\* increasing in commit order.
C4_NumerosNuncaRepetidos ==
    /\ \A i, j \in 1..Len(emitidos) :
          (i # j /\ emitidos[i].tipo = emitidos[j].tipo) => emitidos[i].n # emitidos[j].n
    /\ \A a, b \in 1..Len(txs) :
          (/\ txs[a].pc = "committed"
           /\ txs[b].pc = "committed"
           /\ txs[a].tipo = txs[b].tipo
           /\ txs[a].commit < txs[b].commit) => txs[a].n < txs[b].n

\* C4 (amended): for each document type no two calls that obtain a number in
\* transactions that have not rolled back receive the same value (a number obtained in
\* a transaction that rolls back is issued again), under any interleaving and also when
\* the counter row does not exist yet; committed numbers of one type are strictly
\* increasing in commit order.
C4_NumerosUnicosSinRollback ==
    /\ \A i, j \in 1..Len(emitidos) :
          (/\ i # j
           /\ emitidos[i].tipo = emitidos[j].tipo
           /\ txs[emitidos[i].tx].pc # "aborted"
           /\ txs[emitidos[j].tx].pc # "aborted") =>
              /\ emitidos[i].n # emitidos[j].n
              /\ txs[emitidos[i].tx].numero # txs[emitidos[j].tx].numero
    /\ \A a, b \in 1..Len(txs) :
          (/\ txs[a].pc = "committed"
           /\ txs[b].pc = "committed"
           /\ txs[a].tipo = txs[b].tipo
           /\ txs[a].commit < txs[b].commit) => txs[a].n < txs[b].n

\* C4 witness: two transactions of one type raced for the missing counter row; the loser
\* of the insert retried after IntegrityError, and both committed
C4_Witness ==
    \E a, b \in 1..Len(txs) :
        /\ a # b
        /\ txs[a].tipo = txs[b].tipo
        /\ txs[a].pc = "committed"
        /\ txs[b].pc = "committed"
        /\ txs[a].creado
        /\ txs[b].reintento
        /\ txs[a].n = 1
        /\ txs[b].n = 2

\* a SAL of a sede that is not CENTRAL with a different destination
TransferenciaIlegal(doc) ==
    /\ doc.tipo = "SAL"
    /\ doc.sede_destino # None
    /\ doc.sede_destino # doc.sede
    /\ SedeTipo(doc.sede) # "CENTRAL"

\* C11: confirming a SAL whose sede is not CENTRAL and whose destination differs from it
\* fails; after the failure no Stock row has changed, no movement row and no ING was
\* created, the SAL is still BORRADOR with the number it had, the counter is as before
\* and the REQ it comes from has not changed state.
C11_TransferenciaIlegalFalla ==
    (lastOp.op = "confirmar" /\ TransferenciaIlegal(lastOp.antes.docs[lastOp.doc])) =>
        /\ ~lastOp.ok
        /\ stock = lastOp.antes.stock
        /\ movimientos = lastOp.antes.movimientos
        /\ Len(docs) = Len(lastOp.antes.docs)
        /\ IngsDe(lastOp.doc) = {}
        /\ docs[lastOp.doc].estado = "BORRADOR"
        /\ docs[lastOp.doc].numero = lastOp.antes.docs[lastOp.doc].numero
        /\ correlativo = lastOp.antes.correlativo
        /\ \A j \in 1..Len(docs) : docs[j].estado = lastOp.antes.docs[j].estado

\* C11 witness: the confirm reached the transfer check, after its line had been applied
\* against existing stock and the number assigned
C11_Witness ==
    /\ lastOp.op = "confirmar"
    /\ TransferenciaIlegal(lastOp.antes.docs[lastOp.doc])
    /\ lastOp.causa = "transferencia"
    /\ lastOp.movsSucios >= 1
    /\ lastOp.numeroSucio # SinNumero
    /\ docs[lastOp.doc].numero = SinNumero

\* the received fields of a document
Recepcion(doc) == <<doc.recibido, doc.recibido_por, doc.recibido_en>>

\* the step is a successful confirm of an ING whose origen j is a confirmed SAL sent to
\* the sede of the ING and not yet marked received
ConfirmaIngDe(j) ==
    /\ lastOp'.op = "confirmar"
    /\ lastOp'.ok
    /\ docs[lastOp'.doc].tipo = "ING"
    /\ docs[lastOp'.doc].origen = j
    /\ docs[j].tipo = "SAL"
    /\ docs[j].estado = "CONFIRMADO"
    /\ docs[j].sede_destino = docs[lastOp'.doc].sede
    /\ ~docs[j].recibido

\* C12: confirming an ING marks its origen SAL as received (flag, actor, timestamp)
\* exactly when that SAL is CONFIRMADO, has the sede of the ING as destination and is
\* not yet marked received; in every other case the received fields of a SAL are left
\* unchanged, and a SAL once marked received is never unmarked or re-stamped.
C12_MarcaRecibido ==
    [][\A j \in 1..Len(docs) :
          /\ j <= Len(docs')
          /\ IF ConfirmaIngDe(j)
             THEN Recepcion(docs'[j]) =
                     <<TRUE, docs[lastOp'.doc].responsable, lastOp'.ahora>>
             ELSE Recepcion(docs'[j]) = Recepcion(docs[j])
          /\ docs[j].recibido => Recepcion(docs'[j]) = Recepcion(docs[j])]_vars

\* C12 witness: a second ING with the same origen was confirmed, at another instant,
\* after the SAL had been marked received
C12_Witness ==
    /\ lastOp.op = "confirmar"
    /\ lastOp.ok
    /\ docs[lastOp.doc].tipo = "ING"
    /\ docs[lastOp.doc].origen # 0
    /\ lastOp.antes.docs[docs[lastOp.doc].origen].recibido
    /\ docs[docs[lastOp.doc].origen].recibido_en # lastOp.ahora
    /\ docs[docs[lastOp.doc].origen].recibido_en # SinFecha

\* the kind constraints of a REQ as the specification states them
ReglasDeTipo(doc) ==
    CASE doc.tipo_requerimiento = "LOCAL" ->
            ~doc.proveedor /\ doc.sede_destino = None
      [] doc.tipo_requerimiento = "PROVEEDOR" ->
            doc.proveedor /\ doc.sede_destino = None /\ SedeTipo(doc.sede) = "CENTRAL"
      [] doc.tipo_requerimiento = "ENTRE_SEDES" ->
            /\ doc.sede_destino # None
            /\ SedeTipo(doc.sede_destino) = "CENTRAL"
            /\ SedeTipo(doc.sede) # "CENTRAL"

\* C13: enviar_req moves a REQ from REQ_BORRADOR to REQ_PENDIENTE only if its kind
\* constraints hold (LOCAL: no supplier, no destination; PROVEEDOR: supplier, no
\* destination, own sede CENTRAL; ENTRE_SEDES: destination CENTRAL, own sede not
\* CENTRAL); otherwise the call fails and state, number and counter are unchanged.
C13_EnviarRespetaTipo ==
    lastOp.op = "enviar_req" =>
        LET a == lastOp.antes.docs[lastOp.doc]
        IN  /\ lastOp.ok =>
                 /\ a.estado = "REQ_BORRADOR"
                 /\ ReglasDeTipo(a)
                 /\ docs[lastOp.doc].estado = "REQ_PENDIENTE"
            /\ ~ReglasDeTipo(a) => ~lastOp.ok
            /\ ~lastOp.ok =>
                 /\ docs[lastOp.doc].estado = a.estado
                 /\ docs[lastOp.doc].numero = a.numero
                 /\ correlativo = lastOp.antes.correlativo
                 /\ docs = lastOp.antes.docs

\* C13 witness: a draft with a line was refused only for its kind: a PROVEEDOR REQ of a
\* sede that is not CENTRAL
C13_Witness ==
    /\ lastOp.op = "enviar_req"
    /\ ~lastOp.ok
    /\ docs[lastOp.doc].estado = "REQ_BORRADOR"
    /\ Len(docs[lastOp.doc].items) >= 1
    /\ docs[lastOp.doc].tipo_requerimiento = "PROVEEDOR"
    /\ docs[lastOp.doc].proveedor
    /\ docs[lastOp.doc].sede_destino = None
    /\ SedeTipo(docs[lastOp.doc].sede) # "CENTRAL"

CentralesActivas == {j \in 1..Len(sedes) : sedes[j].tipo = "CENTRAL" /\ sedes[j].activo}

\* C15: in every reachable state at most one active Sede has tipo CENTRAL, whatever
\* sequence of Sede create and update operations was performed.
C15_UnaCentralActiva == Cardinality(CentralesActivas) <= 1

\* C16: a liquidar_sede run for a (semana, anio, sede) that already has
\* LiquidacionSemanal rows is rejected before anything is computed or written, and
\* leaves the rows and the log as they were.
C16_DuplicadaRechazada ==
    (lastOp.op = "liquidar_sede" /\ lastOp.existia) =>
        /\ ~lastOp.ok
        /\ ~lastOp.calculado
        /\ liquidaciones = lastOp.antes.liquidaciones
        /\ logs = lastOp.antes.logs

\* C17: whenever the computation of a liquidation run succeeded, the run returns the
\* computed rows, whatever fails while the log entry is produced and stored.
C17_LogNoHaceFallar ==
    (lastOp.op \in {"liquidar_sede", "liquidar_central"} /\ lastOp.computoOk) =>
        lastOp.ok

\* C18: in every reachable state each user has at most one REQ in REQ_BORRADOR at its
\* sede, also when get_or_create_req_borrador runs concurrently for a user without draft.
C18_UnBorradorPorUsuario ==
    \A u \in Usuarios : Cardinality(ReqBorradorDe(u)) <= 1

\* the numbers of the well-formed TC-ALM codes of a Producto table
NumerosDe(tabla) == {ValorDe(c.resto) : c \in {x \in CodigosDe(tabla) : InternalReMatch(x)}}

\* the code after the largest number of the table, TC-ALM-000001 without any
SiguienteCodigo(tabla) ==
    IF NumerosDe(tabla) = {} THEN FormatearCodigo(1)
    ELSE FormatearCodigo(1 + CHOOSE n \in NumerosDe(tabla) : \A o \in NumerosDe(tabla) : o <= n)

\* C19: a Producto saved without internal code is stored with a code TC-ALM-NNNNNN whose
\* number is one more than the largest number among the existing TC-ALM codes (000001
\* without any) and which no other product has, also under concurrent creation.
C19_CodigoSiguienteYUnico ==
    lastOp.op = "producto_save" =>
        /\ lastOp.ok
        /\ InternalReMatch(lastOp.codigo)
        /\ lastOp.codigo = SiguienteCodigo(lastOp.antes)
        /\ lastOp.codigo \notin CodigosDe(lastOp.antes)

\* C20: a successful confirm of a BORRADOR SAL, ING or MER with n >= 1 lines appends
\* exactly n movements, the k-th with the product and quantity of the k-th line, at the
\* document's sede, IN for an ING and OUT for a SAL or MER, with the document's number
\* as referencia, and leaves the document CONFIRMADO.
C20_UnMovimientoPorLinea ==
    (lastOp.op = "confirmar" /\ lastOp.ok) =>
        LET d == lastOp.doc
            doc == lastOp.antes.docs[d]
            n == Len(doc.items)
            base == Len(lastOp.antes.movimientos)
        IN  (doc.tipo \in {"SAL", "ING", "MER"} /\ doc.estado = "BORRADOR" /\ n >= 1) =>
                /\ Len(movimientos) = base + n
                /\ \A k \in 1..n :
                     /\ movimientos[base + k].producto = doc.items[k].producto
                     /\ movimientos[base + k].qty = doc.items[k].cantidad
                     /\ movimientos[base + k].sede = doc.sede
                     /\ movimientos[base + k].tipo = (IF doc.tipo = "ING" THEN "IN" ELSE "OUT")
                     /\ movimientos[base + k].referencia = docs[d].numero
                /\ docs[d].numero # SinNumero
                /\ docs[d].estado = "CONFIRMADO"

\* C20 witness: a SAL of two lines has just been confirmed
C20_Witness ==
    /\ lastOp.op = "confirmar"
    /\ lastOp.ok
    /\ lastOp.antes.docs[lastOp.doc].tipo = "SAL"
    /\ lastOp.antes.docs[lastOp.doc].estado = "BORRADOR"
    /\ Len(lastOp.antes.docs[lastOp.doc].items) = 2
    /\ Len(movimientos) = Len(lastOp.antes.movimientos) + 2

----------------------------------------------------------------------------
(* Properties of concurrent requests on documents *)

\* C21: under any interleaving of concurrent req_to_sal calls on the same sent REQ, at
\* most one SAL whose origen is that REQ is created.
C21_UnaSalPorReq ==
    \A d \in 1..Len(docs) : docs[d].tipo = "REQ" => Cardinality(SalsDe(d)) <= 1

\* C21 witness: a call that started while another held the REQ locked has loaded the
\* REQ after the other created its SAL, and was refused
C21_Witness ==
    /\ lastOp.op = "rts_get"
    /\ ~lastOp.ok
    /\ lastOp.causa = "estado"
    /\ lastOp.espero
    /\ Cardinality(SalsDe(lastOp.doc)) = 1

\* C22: concurrent aplicar calls on one pair are serialized: in every state the
\* committed Stock.cantidad of a pair is the sum of the signed quantities of the
\* applies that succeeded and is never negative, also when the Stock row did not exist
\* when the calls started.
C22_AplicarSerializado ==
    \A p \in Productos, s \in Sedes :
        /\ Cantidad(stock, p, s) = Replay(movimientos, p, s)
        /\ Cantidad(stock, p, s) >= 0

\* C22 witness: an OUT that started while another transaction worked on its pair, and
\* that fitted the quantity of that moment, read a smaller quantity and was refused
C22_Witness ==
    /\ lastOp.op = "ap_guardar"
    /\ ~lastOp.ok
    /\ lastOp.tipo = "OUT"
    /\ lastOp.solapa
    /\ lastOp.alInicio - lastOp.qty >= 0
    /\ lastOp.leido < lastOp.alInicio

\* C23: a document consumes at most one number of its sequence and a persisted number
\* never changes: whenever a send commits, the document row either had no number or
\* had the number the send writes, also when two copies of the REQ were loaded
\* separately and sent concurrently.
C23_NumeroPersistidoEstable ==
    lastOp.op = "env_guardar" => lastOp.numeroAntes \in {SinNumero, lastOp.numero}

\* C24: the lines of a REQ that has left REQ_BORRADOR never change: a line request
\* changes lines only when the REQ row is REQ_BORRADOR at the time of the change, under
\* any interleaving with a send, so a REQ_PENDIENTE requisition has at least one line.
C24_LineasFijasTrasEnvio ==
    /\ (lastOp.op \in ServiciosLinea /\ lastOp.cambio) => lastOp.estadoFila = "REQ_BORRADOR"
    /\ \A d \in 1..Len(docs) : docs[d].estado = "REQ_PENDIENTE" => Len(docs[d].items) >= 1

\* number of lines of the SAL documents 1..i that are CONFIRMADO
RECURSIVE LineasDeSalConfirmadas(_)
LineasDeSalConfirmadas(i) ==
    IF i = 0 THEN 0
    ELSE LineasDeSalConfirmadas(i - 1)
         + (IF docs[i].tipo = "SAL" /\ docs[i].estado = "CONFIRMADO"
            THEN Len(docs[i].items) ELSE 0)

\* C25: under any interleaving of concurrent confirms of the same draft SAL its lines
\* are applied exactly once: there is one OUT movement per line of a confirmed SAL and
\* none besides, every Stock row is the sum of the saved movements, and a confirm that
\* succeeds found the row in BORRADOR.
C25_ConfirmarUnaVez ==
    /\ Cardinality({m \in 1..Len(movimientos) : movimientos[m].tipo = "OUT"})
          = LineasDeSalConfirmadas(Len(docs))
    /\ \A p \in Productos, s \in Sedes : Cantidad(stock, p, s) = Replay(movimientos, p, s)
    /\ (lastOp.op = "sc_confirmar" /\ lastOp.ok) =>
           lastOp.antes.docs[lastOp.doc].estado = "BORRADOR"

\* C25 witness: a second confirm request of a SAL waited for the row lock of the first,
\* found the SAL confirmed and applied nothing, with stock left for a second application
C25_Witness ==
    /\ lastOp.op = "sc_get"
    /\ lastOp.causa = "ya_confirmada"
    /\ lastOp.espero
    /\ \A k \in 1..Len(docs[lastOp.doc].items) :
          Cantidad(stock, docs[lastOp.doc].items[k].producto, docs[lastOp.doc].sede)
             >= docs[lastOp.doc].items[k].cantidad

C27_ConfirmadoConNumero ==
    /\ \A d \in 1..Len(docs) : docs[d].estado = "CONFIRMADO" => docs[d].numero # SinNumero
    /\ (lastOp.op = "obj_confirmar" /\ lastOp.ok) =>
          \A i \in (lastOp.base + 1)..Len(movimientos) :
              movimientos[i].referencia = docs[lastOp.doc].numero

----------------------------------------------------------------------------
(* Properties of the lines and fields of documents *)

\* C28: a successful confirm of a document at sede W changes only the Stock rows
\* (p, W) of the products p of its lines: every other row exists and holds what it did
\* before; so the confirm of a transfer SAL changes no row of the destination sede,
\* whose rows change when the ING created for it is confirmed.
C28_SoloFilasDeSusLineas ==
    (lastOp.op = "confirmar" /\ lastOp.ok) =>
        LET doc == lastOp.antes.docs[lastOp.doc]
            DeLinea(p) == \E k \in 1..Len(doc.items) : doc.items[k].producto = p
        IN  \A p \in Productos, s \in Sedes :
                (s # doc.sede \/ ~DeLinea(p)) =>
                    /\ ExisteStock(stock, p, s) = ExisteStock(lastOp.antes.stock, p, s)
                    /\ Cantidad(stock, p, s) = Cantidad(lastOp.antes.stock, p, s)

\* C28 witness: the ING created by a confirmed transfer SAL has just been confirmed at
\* the destination sede, which had no Stock row while the SAL was confirmed, and the
\* rows of the dispatching sede hold what they held
C28_Witness ==
    /\ lastOp.op = "confirmar"
    /\ lastOp.ok
    /\ docs[lastOp.doc].tipo = "ING"
    /\ docs[lastOp.doc].origen # 0
    /\ TransferenciaConfirmada(docs[lastOp.doc].origen)
    /\ docs[lastOp.doc].sede # docs[docs[lastOp.doc].origen].sede
    /\ \A p \in Productos : ~ExisteStock(lastOp.antes.stock, p, docs[lastOp.doc].sede)
    /\ \E p \in Productos : Cantidad(stock, p, docs[lastOp.doc].sede) > 0

\* C29: after any sequence of add_item_to_req and set_item_qty calls a draft REQ has
\* at most one line per product and every line has a quantity between 1 and 9999.
C29_LineasEnRango ==
    \A d \in 1..Len(docs) :
        (docs[d].tipo = "REQ" /\ docs[d].estado = "REQ_BORRADOR") =>
            \A k \in 1..Len(docs[d].items) :
                /\ docs[d].items[k].cantidad >= 1
                /\ docs[d].items[k].cantidad <= MAX_QTY
                /\ \A j \in 1..Len(docs[d].items) :
                      docs[d].items[j].producto = docs[d].items[k].producto => j = k

\* C30: every REQ in REQ_PENDIENTE or REQ_ATENDIDO satisfies the constraints of its
\* kind (LOCAL: no supplier, no destination; PROVEEDOR: supplier, no destination, own
\* sede CENTRAL; ENTRE_SEDES: destination CENTRAL, own sede not CENTRAL, no supplier),
\* and no request changes kind, supplier or destination of a REQ that has left
\* REQ_BORRADOR.
C30_EnviadoCumpleReglas ==
    /\ \A d \in 1..Len(docs) :
          (docs[d].tipo = "REQ" /\ docs[d].estado \in {"REQ_PENDIENTE", "REQ_ATENDIDO"}) =>
              /\ ReglasDeTipo(docs[d])
              /\ docs[d].tipo_requerimiento = "ENTRE_SEDES" => ~docs[d].proveedor
    /\ (lastOp.op = "req_set_tipo_doc" /\ lastOp.cambio) => lastOp.estadoAntes = "REQ_BORRADOR"

============================================================================
